---- MODULE Spec2Model ----
(***************************************************************************)
(* A model of the generic B+ tree of src/bptree.go (lines 1-700).          *)
(*                                                                         *)
(* The Go heap is the sequence `heap` of node records; a *node is an index *)
(* into it and Nil is the nil pointer.  A Go slice is a record             *)
(* [a |-> backing array, n |-> length]: len is n, cap is Len(a), and the   *)
(* slots a[n+1..cap] are the part of the backing array the slice does not  *)
(* show.  Indices are 0-based as in the source.  An index or slice bound   *)
(* out of range is a Go panic and evaluates to `panic`, which has no       *)
(* value: TLC stops with an error if a reachable call panics.              *)
(***************************************************************************)
EXTENDS Integers, Sequences, FiniteSets, TLC

VARIABLES
    heap,   \* the allocated nodes, heap[p] for a pointer p
    root,   \* BPTree.root
    size,   \* BPTree.size
    model   \* history variable: the reference map, key -> sequence of values

vars == <<heap, root, size, model>>

(***************************************************************************)
(* Bounds of the explored instances.                                       *)
(***************************************************************************)
MaxOrder == 4       \* orders MinOrder..MaxOrder are constructed
MaxKey == 4         \* Spec: keys 1..MaxKey
MaxVal == 2         \* Spec: values 1..MaxVal
MaxBucket == 3      \* Spec: Append is called on buckets shorter than this
MaxSize == 5        \* Spec: Insert/Append are called while size < MaxSize
MaxTreeKey == 8     \* SpecTree: keys 1..MaxTreeKey
MaxInsKey == 8      \* SpecIns: keys 1..MaxInsKey
MaxBelow == 4       \* SpecLow: orders MinOrder - MaxBelow .. MinOrder - 1
MaxDeepKey == 10    \* SpecDeep: keys 1..MaxDeepKey
MaxMemSize == 10

MinOrder == 3

Min(a, b) == IF a <= b THEN a ELSE b

(***************************************************************************)
(* Go values.                                                              *)
(***************************************************************************)
Nil == 0            \* the nil *node
ZeroK == 0          \* zero value of K
ZeroV == 0          \* zero value of V
StaleKey == -1      \* content of a keys slot outside the slice's length

panic == CHOOSE x \in {} : TRUE

\* An `any` slot of node.values: nil, a V, or a collision[V].
NilValue == [kind |-> "nil", c |-> <<>>]
solo(v) == [kind |-> "solo", c |-> <<v>>]
collision(c) == [kind |-> "collision", c |-> c]
isCollision(x) == x.kind = "collision"

(***************************************************************************)
(* Go slices.                                                              *)
(***************************************************************************)
\* the array with the elements f[1], ..., f[n], as a tuple
array(f) == <<>> \o f

NilSlice == [a |-> <<>>, n |-> 0]
make(zero, c) == [a |-> array([j \in 1..c |-> zero]), n |-> 0]
len(s) == s.n
cap(s) == Len(s.a)
\* s[i]
at(s, i) == IF 0 <= i /\ i < s.n THEN s.a[i + 1] ELSE panic
\* s[i] = v
set(s, i, v) == IF 0 <= i /\ i < s.n THEN [s EXCEPT !.a[i + 1] = v] ELSE panic
\* the elements of s[lo:hi]
sl(s, lo, hi) ==
    IF 0 <= lo /\ lo <= hi /\ hi <= cap(s) THEN SubSeq(s.a, lo + 1, hi) ELSE panic
\* s = s[:hi]
resl(s, hi) == IF 0 <= hi /\ hi <= cap(s) THEN [s EXCEPT !.n = hi] ELSE panic
\* keys = keys[:hi].  The keys left outside the length are never cleared by
\* the code; whatever they hold is represented by StaleKey.
reslK(s, hi) ==
    IF 0 <= hi /\ hi <= cap(s)
    THEN [a |-> array([j \in 1..cap(s) |-> IF j > hi THEN StaleKey ELSE s.a[j]]),
          n |-> hi]
    ELSE panic
\* copy(s[lo:hi], src): min(hi-lo, len(src)) elements, memmove semantics
copy3(s, lo, hi, src) ==
    IF 0 <= lo /\ lo <= hi /\ hi <= cap(s)
    THEN LET cnt == Min(hi - lo, Len(src))
         IN  [s EXCEPT !.a = array([j \in 1..cap(s) |->
                 IF lo < j /\ j <= lo + cnt THEN src[j - lo] ELSE s.a[j]])]
    ELSE panic
\* copy(s[lo:], src)
copy(s, lo, src) == copy3(s, lo, len(s), src)
\* the elements the slice shows
elems(s) == SubSeq(s.a, 1, s.n)

(***************************************************************************)
(* type node                                                               *)
(***************************************************************************)
\* the half rounded down
ceilHalf_floor(sz) == sz \div 2

ceilHalf(sz) == (sz + 1) \div 2

newInternalNode(sz) ==
    [keys |-> make(StaleKey, sz - 1), children |-> make(Nil, sz), values |-> NilSlice,
     left |-> Nil, right |-> Nil, bmin |-> ceilHalf(sz)]

newLeafNode(sz) ==
    [keys |-> make(StaleKey, sz), children |-> NilSlice, values |-> make(NilValue, sz),
     left |-> Nil, right |-> Nil, bmin |-> ceilHalf(sz)]

isInternal(N) == N.children # NilSlice
isLeaf(N) == N.values # NilSlice

\* s = s[len(s):cap(s)]; s[0] = nil; for i := 1; i < len(s); i *= 2 { copy(s[i:], s[:i]) }
RECURSIVE trimLoop(_, _)
trimLoop(t, i) ==
    IF i < len(t) THEN trimLoop(copy(t, i, sl(t, 0, i)), i * 2) ELSE t

trimSlice(s, nil) ==
    LET t == [a |-> sl(s, len(s), cap(s)), n |-> cap(s) - len(s)]
    IN  IF len(t) = 0 THEN s
        ELSE [s EXCEPT !.a = elems(s) \o trimLoop(set(t, 0, nil), 1).a]

trimNodeSlice(s) == trimSlice(s, Nil)
trimValueSlice(s) == trimSlice(s, NilValue)

(***************************************************************************)
(* The descent loop shared by find, insert, delete and Iterator:           *)
(*   for i, c := range n.children { if i == len(n.keys) || key < n.keys[i] *)
(* The index of the child taken, or -1 when the loop ends without one.     *)
(***************************************************************************)
\* childLoop taking child i for key <= keys[i]
RECURSIVE childLoop_le(_, _, _)
childLoop_le(N, key, i) ==
    IF i >= len(N.children) THEN 0 - 1
    ELSE IF i = len(N.keys) \/ key <= at(N.keys, i) THEN i
    ELSE childLoop_le(N, key, i + 1)

RECURSIVE childLoop(_, _, _)
childLoop(N, key, i) ==
    IF i >= len(N.children) THEN 0 - 1
    ELSE IF i = len(N.keys) \/ key < at(N.keys, i) THEN i
    ELSE childLoop(N, key, i + 1)

\* BPTree.find: the leaf reached from n; the outer loop spins forever on a
\* node where no child is taken (no value).
RECURSIVE findLeaf(_, _, _)
findLeaf(h, n, key) ==
    IF isInternal(h[n])
    THEN LET i == childLoop(h[n], key, 0)
         IN  IF i < 0 THEN panic ELSE findLeaf(h, at(h[n].children, i), key)
    ELSE n

RECURSIVE keyLoop(_, _, _)
keyLoop(N, key, i) ==
    IF i >= len(N.keys) THEN 0 - 1
    ELSE IF at(N.keys, i) = key THEN i
    ELSE keyLoop(N, key, i + 1)

\* BPTree.find: (any, bool) as [ok, v]
find(t, key) ==
    LET N == t.h[findLeaf(t.h, t.root, key)]
        i == keyLoop(N, key, 0)
    IN  IF i >= 0 THEN [ok |-> TRUE, v |-> at(N.values, i)]
        ELSE [ok |-> FALSE, v |-> NilValue]

\* BPTree.Find: (V, bool) as [ok, val]
Find(t, key) ==
    LET f == find(t, key)
    IN  IF f.ok
        THEN IF isCollision(f.v) THEN [ok |-> TRUE, val |-> f.v.c[1]]
             ELSE [ok |-> TRUE, val |-> f.v.c[1]]
        ELSE [ok |-> FALSE, val |-> ZeroV]

\* BPTree.FindAll: ([]V, bool) as [ok, vals]
FindAll(t, key) ==
    LET f == find(t, key)
    IN  IF f.ok
        THEN IF isCollision(f.v) THEN [ok |-> TRUE, vals |-> f.v.c]
             ELSE [ok |-> TRUE, vals |-> <<f.v.c[1]>>]
        ELSE [ok |-> FALSE, vals |-> <<>>]

(***************************************************************************)
(* node.insertToLeaf                                                       *)
(***************************************************************************)
\* leafScan breaking at the first key that is not smaller
RECURSIVE leafScan_break(_, _, _, _)
leafScan_break(N, key, i, pos) ==
    IF i >= len(N.keys) THEN [hit |-> FALSE, i |-> pos]
    ELSE IF at(N.keys, i) >= key THEN [hit |-> FALSE, i |-> pos]
    ELSE leafScan_break(N, key, i + 1, i + 1)

\* leafScan passing over an equal key as over a smaller one
RECURSIVE leafScan_pass(_, _, _, _)
leafScan_pass(N, key, i, pos) ==
    IF i >= len(N.keys) THEN [hit |-> FALSE, i |-> pos]
    ELSE IF at(N.keys, i) > key THEN [hit |-> FALSE, i |-> pos]
    ELSE leafScan_pass(N, key, i + 1, i + 1)

\* the scan of the leaf's keys: [hit, i] on an equal key, else [~hit, pos]
RECURSIVE leafScan(_, _, _, _)
leafScan(N, key, i, pos) ==
    IF i >= len(N.keys) THEN [hit |-> FALSE, i |-> pos]
    ELSE LET k == at(N.keys, i)
         IN  IF k > key THEN [hit |-> FALSE, i |-> pos]
             ELSE IF k = key THEN [hit |-> TRUE, i |-> i]
             ELSE leafScan(N, key, i + 1, i + 1)

\* linkRight without n.right = n2
linkRight_unlinked(h, n, N, N2) ==
    LET id2 == Len(h) + 1
        oldRight == h[n].right
    IN  array([j \in 1..id2 |->
            IF j = n THEN N
            ELSE IF j = id2 THEN [N2 EXCEPT !.right = oldRight, !.left = n]
            ELSE IF j = oldRight THEN [h[j] EXCEPT !.left = id2]
            ELSE h[j]])

\* the stitching of a new right sibling n2 (record N2) behind n (record N)
\* into heap h; both records as they are after the split
linkRight(h, n, N, N2) ==
    LET id2 == Len(h) + 1
        oldRight == h[n].right
    IN  array([j \in 1..id2 |->
            IF j = n THEN [N EXCEPT !.right = id2]
            ELSE IF j = id2 THEN [N2 EXCEPT !.right = oldRight, !.left = n]
            ELSE IF j = oldRight THEN [h[j] EXCEPT !.left = id2]
            ELSE h[j]])

\* insertToLeafSplit returning the last key of the left leaf
insertToLeafSplit_left(h, n, key, val, pos) ==
    LET N == h[n]
        bmin == N.bmin
        M0 == newLeafNode(cap(N.keys))
        k2a == reslK(M0.keys, cap(N.keys) + 1 - bmin)
        v2a == resl(M0.values, cap(N.values) + 1 - bmin)
        low == pos < bmin
        \* pos < n.bmin
        k2L == copy(k2a, 0, sl(N.keys, bmin - 1, len(N.keys)))
        v2L == copy(v2a, 0, sl(N.values, bmin - 1, len(N.values)))
        k1L0 == reslK(N.keys, bmin)
        v1L0 == resl(N.values, bmin)
        k1L == set(copy(k1L0, pos + 1, sl(k1L0, pos, bmin - 1)), pos, key)
        v1L == set(copy(v1L0, pos + 1, sl(v1L0, pos, bmin - 1)), pos, solo(val))
        \* else
        pos2 == pos - bmin
        k2R == copy(set(copy(k2a, 0, sl(N.keys, bmin, pos)), pos2, key),
                    pos2 + 1, sl(N.keys, pos, len(N.keys)))
        v2R == copy(set(copy(v2a, 0, sl(N.values, bmin, pos)), pos2, solo(val)),
                    pos2 + 1, sl(N.values, pos, len(N.values)))
        k1R == reslK(N.keys, bmin)
        v1R == resl(N.values, bmin)
        N1 == [N EXCEPT !.keys = IF low THEN k1L ELSE k1R,
                        !.values = trimValueSlice(IF low THEN v1L ELSE v1R)]
        N2 == [M0 EXCEPT !.keys = IF low THEN k2L ELSE k2R,
                         !.values = IF low THEN v2L ELSE v2R]
    IN  [h |-> linkRight(h, n, N1, N2), ok |-> TRUE,
         key2 |-> at(N1.keys, len(N1.keys) - 1), n2 |-> Len(h) + 1]

insertToLeafSplit(h, n, key, val, pos) ==
    LET N == h[n]
        bmin == N.bmin
        M0 == newLeafNode(cap(N.keys))
        k2a == reslK(M0.keys, cap(N.keys) + 1 - bmin)
        v2a == resl(M0.values, cap(N.values) + 1 - bmin)
        low == pos < bmin
        \* pos < n.bmin
        k2L == copy(k2a, 0, sl(N.keys, bmin - 1, len(N.keys)))
        v2L == copy(v2a, 0, sl(N.values, bmin - 1, len(N.values)))
        k1L0 == reslK(N.keys, bmin)
        v1L0 == resl(N.values, bmin)
        k1L == set(copy(k1L0, pos + 1, sl(k1L0, pos, bmin - 1)), pos, key)
        v1L == set(copy(v1L0, pos + 1, sl(v1L0, pos, bmin - 1)), pos, solo(val))
        \* else
        pos2 == pos - bmin
        k2R == copy(set(copy(k2a, 0, sl(N.keys, bmin, pos)), pos2, key),
                    pos2 + 1, sl(N.keys, pos, len(N.keys)))
        v2R == copy(set(copy(v2a, 0, sl(N.values, bmin, pos)), pos2, solo(val)),
                    pos2 + 1, sl(N.values, pos, len(N.values)))
        k1R == reslK(N.keys, bmin)
        v1R == resl(N.values, bmin)
        N1 == [N EXCEPT !.keys = IF low THEN k1L ELSE k1R,
                        !.values = trimValueSlice(IF low THEN v1L ELSE v1R)]
        N2 == [M0 EXCEPT !.keys = IF low THEN k2L ELSE k2R,
                         !.values = IF low THEN v2L ELSE v2R]
    IN  [h |-> linkRight(h, n, N1, N2), ok |-> TRUE,
         key2 |-> at(N2.keys, 0), n2 |-> Len(h) + 1]

\* replaced with a bucket kept and only its first entry overwritten
replaced_first(old, val) ==
    IF isCollision(old) THEN collision(<<val>> \o Tail(old.c)) ELSE solo(val)

\* replace: n.values[i] = val
replaced(old, val) == solo(val)

\* appended with val put in front
appended_front(old, val) ==
    IF ~isCollision(old) THEN collision(<<val, old.c[1]>>)
    ELSE collision(<<val>> \o old.c)

\* !replace: collision[V]{n.values[i].(V), val}, or append(c, val)
appended(old, val) ==
    IF ~isCollision(old) THEN collision(<<old.c[1], val>>)
    ELSE collision(Append(old.c, val))

insertToLeaf(h, n, key, val, replace) ==
    LET N == h[n]
        sc == leafScan(N, key, 0, 0)
        i == sc.i
        pos == sc.i
    IN  IF sc.hit
        THEN IF replace
             THEN [h |-> [h EXCEPT ![n].values =
                                      set(N.values, i, replaced(at(N.values, i), val))],
                   ok |-> FALSE, key2 |-> ZeroK, n2 |-> Nil]
             ELSE [h |-> [h EXCEPT ![n].values =
                                      set(N.values, i, appended(at(N.values, i), val))],
                   ok |-> TRUE, key2 |-> ZeroK, n2 |-> Nil]
        ELSE IF len(N.keys) < cap(N.keys)
        THEN LET k1 == reslK(N.keys, len(N.keys) + 1)
                 v1 == resl(N.values, len(N.values) + 1)
                 k2 == copy(k1, pos + 1, sl(k1, pos, len(k1) - 1))
                 v2 == copy(v1, pos + 1, sl(v1, pos, len(v1) - 1))
             IN  [h |-> [h EXCEPT ![n].keys = set(k2, pos, key),
                                  ![n].values = set(v2, pos, solo(val))],
                  ok |-> TRUE, key2 |-> ZeroK, n2 |-> Nil]
        ELSE insertToLeafSplit(h, n, key, val, pos)

(***************************************************************************)
(* node.insertToInternal; the result is [h, key2, n2].                     *)
(***************************************************************************)
RECURSIVE internalScan(_, _, _, _)
internalScan(N, key, i, pos) ==
    IF i >= len(N.keys) THEN pos
    ELSE IF at(N.keys, i) < key THEN internalScan(N, key, i + 1, i + 1)
    ELSE pos

\* insertToInternalSplit handing an old key up when pos == n.bmin-1
insertToInternalSplit_old(h, n, key, child, pos) ==
    LET N == h[n]
        bmin == N.bmin
        cpos == pos + 1
        M0 == newInternalNode(cap(N.children))
        k2a == reslK(M0.keys, cap(N.keys) + 1 - bmin)
        c2a == resl(M0.children, cap(N.children) + 1 - bmin)
        \* pos < n.bmin-1
        keyA == at(N.keys, bmin - 2)
        k2A == copy(k2a, 0, sl(N.keys, bmin - 1, len(N.keys)))
        c2A == copy(c2a, 0, sl(N.children, bmin - 1, len(N.children)))
        k1A0 == reslK(N.keys, bmin - 1)
        c1A0 == resl(N.children, bmin)
        k1A == set(copy(k1A0, pos + 1, sl(k1A0, pos, bmin - 2)), pos, key)
        c1A == set(copy(c1A0, cpos + 1, sl(c1A0, cpos, bmin - 1)), cpos, child)
        \* pos == n.bmin-1
        keyB == at(N.keys, bmin - 1)
        k2B == copy(k2a, 0, sl(N.keys, bmin - 1, len(N.keys)))
        c2B == set(copy(c2a, 1, sl(N.children, bmin, len(N.children))), 0, child)
        k1B == reslK(N.keys, bmin - 1)
        c1B == resl(N.children, bmin)
        \* pos > n.bmin-1
        keyC == at(N.keys, bmin - 1)
        pos2 == pos - bmin
        cpos2 == cpos - bmin
        k2C == copy(set(copy(k2a, 0, sl(N.keys, bmin, pos)), pos2, key),
                    pos2 + 1, sl(N.keys, pos, len(N.keys)))
        c2C == copy(set(copy(c2a, 0, sl(N.children, bmin, cpos)), cpos2, child),
                    cpos2 + 1, sl(N.children, cpos, len(N.children)))
        k1C == reslK(N.keys, bmin - 1)
        c1C == resl(N.children, bmin)
        br == IF pos < bmin - 1 THEN "A" ELSE IF pos = bmin - 1 THEN "B" ELSE "C"
        N1 == [N EXCEPT
                 !.keys = CASE br = "A" -> k1A [] br = "B" -> k1B [] OTHER -> k1C,
                 !.children = trimNodeSlice(
                     CASE br = "A" -> c1A [] br = "B" -> c1B [] OTHER -> c1C)]
        N2 == [M0 EXCEPT
                 !.keys = CASE br = "A" -> k2A [] br = "B" -> k2B [] OTHER -> k2C,
                 !.children = CASE br = "A" -> c2A [] br = "B" -> c2B [] OTHER -> c2C]
    IN  [h |-> linkRight(h, n, N1, N2),
         key2 |-> CASE br = "A" -> keyA [] br = "B" -> keyB [] OTHER -> keyC,
         n2 |-> Len(h) + 1]

insertToInternalSplit(h, n, key, child, pos) ==
    LET N == h[n]
        bmin == N.bmin
        cpos == pos + 1
        M0 == newInternalNode(cap(N.children))
        k2a == reslK(M0.keys, cap(N.keys) + 1 - bmin)
        c2a == resl(M0.children, cap(N.children) + 1 - bmin)
        \* pos < n.bmin-1
        keyA == at(N.keys, bmin - 2)
        k2A == copy(k2a, 0, sl(N.keys, bmin - 1, len(N.keys)))
        c2A == copy(c2a, 0, sl(N.children, bmin - 1, len(N.children)))
        k1A0 == reslK(N.keys, bmin - 1)
        c1A0 == resl(N.children, bmin)
        k1A == set(copy(k1A0, pos + 1, sl(k1A0, pos, bmin - 2)), pos, key)
        c1A == set(copy(c1A0, cpos + 1, sl(c1A0, cpos, bmin - 1)), cpos, child)
        \* pos == n.bmin-1
        keyB == key
        k2B == copy(k2a, 0, sl(N.keys, bmin - 1, len(N.keys)))
        c2B == set(copy(c2a, 1, sl(N.children, bmin, len(N.children))), 0, child)
        k1B == reslK(N.keys, bmin - 1)
        c1B == resl(N.children, bmin)
        \* pos > n.bmin-1
        keyC == at(N.keys, bmin - 1)
        pos2 == pos - bmin
        cpos2 == cpos - bmin
        k2C == copy(set(copy(k2a, 0, sl(N.keys, bmin, pos)), pos2, key),
                    pos2 + 1, sl(N.keys, pos, len(N.keys)))
        c2C == copy(set(copy(c2a, 0, sl(N.children, bmin, cpos)), cpos2, child),
                    cpos2 + 1, sl(N.children, cpos, len(N.children)))
        k1C == reslK(N.keys, bmin - 1)
        c1C == resl(N.children, bmin)
        br == IF pos < bmin - 1 THEN "A" ELSE IF pos = bmin - 1 THEN "B" ELSE "C"
        N1 == [N EXCEPT
                 !.keys = CASE br = "A" -> k1A [] br = "B" -> k1B [] OTHER -> k1C,
                 !.children = trimNodeSlice(
                     CASE br = "A" -> c1A [] br = "B" -> c1B [] OTHER -> c1C)]
        N2 == [M0 EXCEPT
                 !.keys = CASE br = "A" -> k2A [] br = "B" -> k2B [] OTHER -> k2C,
                 !.children = CASE br = "A" -> c2A [] br = "B" -> c2B [] OTHER -> c2C]
    IN  [h |-> linkRight(h, n, N1, N2),
         key2 |-> CASE br = "A" -> keyA [] br = "B" -> keyB [] OTHER -> keyC,
         n2 |-> Len(h) + 1]

insertToInternal(h, n, key, child) ==
    LET N == h[n]
        pos == internalScan(N, key, 0, 0)
        cpos == pos + 1
    IN  IF len(N.children) < cap(N.children)
        THEN LET k1 == reslK(N.keys, len(N.keys) + 1)
                 c1 == resl(N.children, len(N.children) + 1)
                 k2 == copy(k1, pos + 1, sl(k1, pos, len(k1) - 1))
                 c2 == copy(c1, cpos + 1, sl(c1, cpos, len(c1) - 1))
             IN  [h |-> [h EXCEPT ![n].keys = set(k2, pos, key),
                                  ![n].children = set(c2, cpos, child)],
                  key2 |-> ZeroK, n2 |-> Nil]
        ELSE insertToInternalSplit(h, n, key, child, pos)

(***************************************************************************)
(* node.insert; the result is [h, ok, key2, n2].                           *)
(***************************************************************************)
\* key2, n2 = n.insertToInternal(key2, n2); return: s is what the call gave,
\* ok what the child returned
withOk(s, ok) == [h |-> s.h, ok |-> ok, key2 |-> s.key2, n2 |-> s.n2]

RECURSIVE node_insert(_, _, _, _, _)
node_insert(h, n, key, val, replace) ==
    IF isLeaf(h[n]) THEN insertToLeaf(h, n, key, val, replace)
    ELSE LET i == childLoop(h[n], key, 0)
             r == IF i < 0
                  THEN [h |-> h, ok |-> FALSE, key2 |-> ZeroK, n2 |-> Nil]
                  ELSE node_insert(h, at(h[n].children, i), key, val, replace)
         IN  IF r.n2 # Nil
             THEN withOk(insertToInternal(r.h, n, r.key2, r.n2), r.ok)
             ELSE r

(***************************************************************************)
(* BPTree.insert.  A tree t is [h, root, size]: the heap it lives in and   *)
(* its two fields; the result is the tree after the call.                  *)
(***************************************************************************)
\* insertRoot with t.root.children[1] = n
insertRoot_dropSibling(t, res) ==
    LET n == t.root
        R0 == IF isLeaf(res.h[n]) THEN newInternalNode(cap(res.h[n].keys))
              ELSE newInternalNode(cap(res.h[n].children))
        R1 == [R0 EXCEPT
                 !.keys = set(reslK(R0.keys, 1), 0, res.key2),
                 !.children = set(set(resl(R0.children, 2), 0, n), 1, n)]
        grown == res.n2 # Nil
    IN  [h |-> IF grown THEN Append(res.h, R1) ELSE res.h,
         root |-> IF grown THEN Len(res.h) + 1 ELSE t.root,
         size |-> IF res.ok THEN t.size + 1 ELSE t.size]

\* insertRoot with the new sibling put in front of the old root
insertRoot_swapped(t, res) ==
    LET n == t.root
        R0 == IF isLeaf(res.h[n]) THEN newInternalNode(cap(res.h[n].keys))
              ELSE newInternalNode(cap(res.h[n].children))
        R1 == [R0 EXCEPT
                 !.keys = set(reslK(R0.keys, 1), 0, res.key2),
                 !.children = set(set(resl(R0.children, 2), 0, res.n2), 1, n)]
        grown == res.n2 # Nil
    IN  [h |-> IF grown THEN Append(res.h, R1) ELSE res.h,
         root |-> IF grown THEN Len(res.h) + 1 ELSE t.root,
         size |-> IF res.ok THEN t.size + 1 ELSE t.size]

\* the part of BPTree.insert after t.root.insert returned res = [h, ok, key2, n2]
insertRoot(t, res) ==
    LET n == t.root
        R0 == IF isLeaf(res.h[n]) THEN newInternalNode(cap(res.h[n].keys))
              ELSE newInternalNode(cap(res.h[n].children))
        R1 == [R0 EXCEPT
                 !.keys = set(reslK(R0.keys, 1), 0, res.key2),
                 !.children = set(set(resl(R0.children, 2), 0, n), 1, res.n2)]
        grown == res.n2 # Nil
    IN  [h |-> IF grown THEN Append(res.h, R1) ELSE res.h,
         root |-> IF grown THEN Len(res.h) + 1 ELSE t.root,
         size |-> IF res.ok THEN t.size + 1 ELSE t.size]

insert(t, key, val, replace) ==
    insertRoot(t, node_insert(t.h, t.root, key, val, replace))

(***************************************************************************)
(* node.deleteFromLeaf; the result is [h, val, ok], val an `any`.          *)
(***************************************************************************)
\* removeSlot on n.keys alone
removeSlot_keys(N, i) ==
    LET k1 == copy3(N.keys, i, len(N.keys) - 1, sl(N.keys, i + 1, len(N.keys)))
    IN  [N EXCEPT !.keys = reslK(k1, len(N.keys) - 1)]

\* the removal of slot i that ends deleteFromLeaf
removeSlot(N, i) ==
    LET k1 == copy3(N.keys, i, len(N.keys) - 1, sl(N.keys, i + 1, len(N.keys)))
        v1 == copy3(N.values, i, len(N.values) - 1, sl(N.values, i + 1, len(N.values)))
    IN  [N EXCEPT !.keys = reslK(k1, len(N.keys) - 1),
                  !.values = resl(set(v1, len(N.values) - 1, NilValue),
                                  len(N.values) - 1)]

\* cutAt one entry too far
cutAt_next(c, idx) == SubSeq(c, 1, idx + 1) \o SubSeq(c, idx + 3, Len(c))

\* c with the entry at idx removed: copy(c[idx:], c[idx+1:]); c[:len(c)-1]
cutAt(c, idx) == SubSeq(c, 1, idx) \o SubSeq(c, idx + 2, Len(c))

\* remaining with the first entry cut when idx < 0
remaining_first(c, idx) == IF idx < 0 THEN Tail(c) ELSE cutAt(c, idx)

\* the bucket c after the removal: n.values[i] = c[:len(c)-1] in both branches
remaining(c, idx) == IF idx < 0 THEN SubSeq(c, 1, Len(c) - 1) ELSE cutAt(c, idx)

\* the array of bucket c after the removal at idx (the last entry when
\* idx < 0): copy(c[idx:], c[idx+1:]); c[len(c)-1] = zero; c[:len(c)-1]
bucketArray(c, idx) ==
    LET b == [a |-> c, n |-> Len(c)]
        b1 == IF idx < 0 THEN b ELSE copy(b, idx, sl(b, idx + 1, len(b)))
    IN  resl(set(b1, len(b) - 1, ZeroV), len(b) - 1)


\* deleteFromLeaf returning after the cut whatever is left of the bucket
deleteFromLeaf_keepSlot(h, n, key, all, idx) ==
    LET N == h[n]
        i == keyLoop(N, key, 0)
        old == at(N.values, i)
        c == old.c
        gone == [h EXCEPT ![n] = removeSlot(N, i)]
    IN  IF i < 0 THEN [h |-> h, val |-> NilValue, ok |-> FALSE]
        ELSE IF all
        THEN [h |-> gone, ok |-> TRUE,
              val |-> IF ~isCollision(old) THEN collision(<<old.c[1]>>) ELSE old]
        ELSE IF ~isCollision(old)
        THEN IF idx > 0 THEN [h |-> h, val |-> NilValue, ok |-> FALSE]
             ELSE [h |-> gone, val |-> old, ok |-> TRUE]
        ELSE IF idx >= Len(c) THEN [h |-> h, val |-> NilValue, ok |-> FALSE]
        ELSE LET val == IF idx < 0 THEN solo(c[Len(c)]) ELSE solo(c[idx + 1])
                 c1 == remaining(c, idx)
                 N1 == [N EXCEPT !.values = set(N.values, i, collision(c1))]
             IN  IF Len(c1) >= 0
                 THEN [h |-> [h EXCEPT ![n] = N1], val |-> val, ok |-> TRUE]
                 ELSE [h |-> [h EXCEPT ![n] = removeSlot(N1, i)],
                       val |-> val, ok |-> TRUE]

\* deleteFromLeaf refusing idx 0 on a value that is not a bucket
deleteFromLeaf_soloIdx(h, n, key, all, idx) ==
    LET N == h[n]
        i == keyLoop(N, key, 0)
        old == at(N.values, i)
        c == old.c
        gone == [h EXCEPT ![n] = removeSlot(N, i)]
    IN  IF i < 0 THEN [h |-> h, val |-> NilValue, ok |-> FALSE]
        ELSE IF all
        THEN [h |-> gone, ok |-> TRUE,
              val |-> IF ~isCollision(old) THEN collision(<<old.c[1]>>) ELSE old]
        ELSE IF ~isCollision(old)
        THEN IF idx >= 0 THEN [h |-> h, val |-> NilValue, ok |-> FALSE]
             ELSE [h |-> gone, val |-> old, ok |-> TRUE]
        ELSE IF idx >= Len(c) THEN [h |-> h, val |-> NilValue, ok |-> FALSE]
        ELSE LET val == IF idx < 0 THEN solo(c[Len(c)]) ELSE solo(c[idx + 1])
                 c1 == remaining(c, idx)
                 N1 == [N EXCEPT !.values = set(N.values, i, collision(c1))]
             IN  IF Len(c1) # 0
                 THEN [h |-> [h EXCEPT ![n] = N1], val |-> val, ok |-> TRUE]
                 ELSE [h |-> [h EXCEPT ![n] = removeSlot(N1, i)],
                       val |-> val, ok |-> TRUE]

deleteFromLeaf(h, n, key, all, idx) ==
    LET N == h[n]
        i == keyLoop(N, key, 0)
        old == at(N.values, i)
        c == old.c
        gone == [h EXCEPT ![n] = removeSlot(N, i)]
    IN  IF i < 0 THEN [h |-> h, val |-> NilValue, ok |-> FALSE]
        ELSE IF all
        THEN [h |-> gone, ok |-> TRUE,
              val |-> IF ~isCollision(old) THEN collision(<<old.c[1]>>) ELSE old]
        ELSE IF ~isCollision(old)
        THEN IF idx > 0 THEN [h |-> h, val |-> NilValue, ok |-> FALSE]
             ELSE [h |-> gone, val |-> old, ok |-> TRUE]
        ELSE IF idx >= Len(c) THEN [h |-> h, val |-> NilValue, ok |-> FALSE]
        ELSE LET val == IF idx < 0 THEN solo(c[Len(c)]) ELSE solo(c[idx + 1])
                 c1 == remaining(c, idx)
                 N1 == [N EXCEPT !.values = set(N.values, i, collision(c1))]
             IN  IF Len(c1) # 0
                 THEN [h |-> [h EXCEPT ![n] = N1], val |-> val, ok |-> TRUE]
                 ELSE [h |-> [h EXCEPT ![n] = removeSlot(N1, i)],
                       val |-> val, ok |-> TRUE]

(***************************************************************************)
(* Borrowing.  n is the receiver, n2 the sibling; the result is            *)
(* [n, n2, key]: both node records after the call and the key returned.    *)
(***************************************************************************)
takeFromLeftSiblingLeaf(N, N2) ==
    LET k1 == reslK(N.keys, len(N.keys) + 1)
        k2 == copy(k1, 1, sl(k1, 0, len(k1) - 1))
        k3 == set(k2, 0, at(N2.keys, len(N2.keys) - 1))
        v1 == resl(N.values, len(N.values) + 1)
        v2 == copy(v1, 1, sl(v1, 0, len(v1) - 1))
        v3 == set(v2, 0, at(N2.values, len(N2.values) - 1))
    IN  [n |-> [N EXCEPT !.keys = k3, !.values = v3],
         n2 |-> [N2 EXCEPT
                   !.keys = reslK(N2.keys, len(N2.keys) - 1),
                   !.values = resl(set(N2.values, len(N2.values) - 1, NilValue),
                                   len(N2.values) - 1)],
         key |-> at(k3, 0)]

takeFromRightSiblingLeaf(N, N2) ==
    LET k1 == reslK(N.keys, len(N.keys) + 1)
        k2 == set(k1, len(k1) - 1, at(N2.keys, 0))
        j1 == copy3(N2.keys, 0, len(N2.keys) - 1, sl(N2.keys, 1, len(N2.keys)))
        j2 == reslK(j1, len(j1) - 1)
        v1 == resl(N.values, len(N.values) + 1)
        v2 == set(v1, len(v1) - 1, at(N2.values, 0))
        w1 == copy3(N2.values, 0, len(N2.values) - 1, sl(N2.values, 1, len(N2.values)))
        w2 == resl(set(w1, len(w1) - 1, NilValue), len(w1) - 1)
    IN  [n |-> [N EXCEPT !.keys = k2, !.values = v2],
         n2 |-> [N2 EXCEPT !.keys = j2, !.values = w2],
         key |-> at(j2, 0)]

takeFromLeftSiblingInternal(N, N2, key) ==
    LET k1 == reslK(N.keys, len(N.keys) + 1)
        k2 == copy(k1, 1, sl(k1, 0, len(k1) - 1))
        mkey == at(N2.keys, len(N2.keys) - 1)
        k3 == set(k2, 0, key)
        c1 == resl(N.children, len(N.children) + 1)
        c2 == copy(c1, 1, sl(c1, 0, len(c1) - 1))
        c3 == set(c2, 0, at(N2.children, len(N2.children) - 1))
    IN  [n |-> [N EXCEPT !.keys = k3, !.children = c3],
         n2 |-> [N2 EXCEPT
                   !.keys = reslK(N2.keys, len(N2.keys) - 1),
                   !.children = resl(set(N2.children, len(N2.children) - 1, Nil),
                                     len(N2.children) - 1)],
         key |-> mkey]

\* takeFromRightSiblingInternal returning the separator it was given
takeFromRightSiblingInternal_same(N, N2, key) ==
    LET k1 == reslK(N.keys, len(N.keys) + 1)
        k2 == set(k1, len(k1) - 1, key)
        mkey == at(N2.keys, 0)
        j1 == copy3(N2.keys, 0, len(N2.keys) - 1, sl(N2.keys, 1, len(N2.keys)))
        j2 == reslK(j1, len(j1) - 1)
        c1 == resl(N.children, len(N.children) + 1)
        c2 == set(c1, len(c1) - 1, at(N2.children, 0))
        d1 == copy3(N2.children, 0, len(N2.children) - 1,
                    sl(N2.children, 1, len(N2.children)))
        d2 == resl(set(d1, len(d1) - 1, Nil), len(d1) - 1)
    IN  [n |-> [N EXCEPT !.keys = k2, !.children = c2],
         n2 |-> [N2 EXCEPT !.keys = j2, !.children = d2],
         key |-> key]

takeFromRightSiblingInternal(N, N2, key) ==
    LET k1 == reslK(N.keys, len(N.keys) + 1)
        k2 == set(k1, len(k1) - 1, key)
        mkey == at(N2.keys, 0)
        j1 == copy3(N2.keys, 0, len(N2.keys) - 1, sl(N2.keys, 1, len(N2.keys)))
        j2 == reslK(j1, len(j1) - 1)
        c1 == resl(N.children, len(N.children) + 1)
        c2 == set(c1, len(c1) - 1, at(N2.children, 0))
        d1 == copy3(N2.children, 0, len(N2.children) - 1,
                    sl(N2.children, 1, len(N2.children)))
        d2 == resl(set(d1, len(d1) - 1, Nil), len(d1) - 1)
    IN  [n |-> [N EXCEPT !.keys = k2, !.children = c2],
         n2 |-> [N2 EXCEPT !.keys = j2, !.children = d2],
         key |-> mkey]

(***************************************************************************)
(* Merging and node.deleteChild.                                           *)
(***************************************************************************)
\* deleteChild without n.children[len(n.children)-1] = nil
deleteChild_keep(N, i) ==
    LET k1 == copy3(N.keys, i - 1, len(N.keys) - 1, sl(N.keys, i, len(N.keys)))
        k2 == reslK(k1, len(k1) - 1)
        c1 == copy3(N.children, i, len(N.children) - 1,
                    sl(N.children, i + 1, len(N.children)))
        c2 == resl(c1, len(c1) - 1)
    IN  [N EXCEPT !.keys = k2, !.children = c2]

deleteChild(N, i) ==
    LET k1 == copy3(N.keys, i - 1, len(N.keys) - 1, sl(N.keys, i, len(N.keys)))
        k2 == reslK(k1, len(k1) - 1)
        c1 == copy3(N.children, i, len(N.children) - 1,
                    sl(N.children, i + 1, len(N.children)))
        c2 == resl(set(c1, len(c1) - 1, Nil), len(c1) - 1)
    IN  [N EXCEPT !.keys = k2, !.children = c2]

\* unlinkRight without r.right.left = l
unlinkRight_oneway(h, l, r) ==
    array([j \in 1..Len(h) |-> IF j = l THEN [h[j] EXCEPT !.right = h[r].right]
                                ELSE h[j]])

\* l.right = r.right; if r.right != nil { r.right.left = l }
unlinkRight(h, l, r) ==
    LET rr == h[r].right
    IN  array([j \in 1..Len(h) |->
            IF j = l THEN [h[j] EXCEPT !.right = rr]
            ELSE IF j = rr THEN [h[j] EXCEPT !.left = l]
            ELSE h[j]])

\* the moves of mergeLeafs on the two node records: L after the call
joinLeafs(L, R) ==
    LET llen == len(L.keys)
        rlen == len(R.keys)
    IN  [L EXCEPT !.keys = copy(reslK(L.keys, llen + rlen), llen, elems(R.keys)),
                  !.values = copy(resl(L.values, llen + rlen), llen,
                                  elems(R.values))]

\* mergeLeafs without the copies
mergeLeafs_drop(h, l, r) == unlinkRight(h, l, r)

mergeLeafs(h, l, r) ==
    [unlinkRight(h, l, r) EXCEPT ![l] = joinLeafs(@, h[r])]

\* the moves of mergeInternal on the two node records: L after the call
joinInternal(L, R, key) ==
    LET nlkeys == len(L.keys)
        nlch == len(L.children)
        k1 == set(reslK(L.keys, nlkeys + len(R.keys) + 1), nlkeys, key)
        k2 == copy(k1, nlkeys + 1, elems(R.keys))
    IN  [L EXCEPT !.keys = k2,
                  !.children = copy(resl(L.children, len(k2) + 1), nlch,
                                    elems(R.children))]

mergeInternal(h, l, r, key) ==
    [unlinkRight(h, l, r) EXCEPT ![l] = joinInternal(@, h[r], key)]

(***************************************************************************)
(* node.balanceLeaf and node.balanceInternal: the heap after the call.     *)
(***************************************************************************)
\* borrowed without the store into n.keys[j]
borrowed_stale(h, n, j, c, n2, took) ==
    [h EXCEPT ![c] = took.n, ![n2] = took.n2]

\* n.keys[j] = c.takeFrom...(n2): took = [n, n2, key] is what the call on
\* child c and sibling n2 gave
borrowed(h, n, j, c, n2, took) ==
    [h EXCEPT ![c] = took.n, ![n2] = took.n2,
              ![n].keys = set(h[n].keys, j, took.key)]

\* balanceLeaf trying the right sibling before the left one
balanceLeaf_rightFirst(h, n, i) ==
    LET N == h[n]
        c == at(N.children, i)
        lft == at(N.children, i - 1)
        rgt == at(N.children, i + 1)
    IN  IF i # len(N.children) - 1 /\ len(h[rgt].values) > N.bmin
        THEN borrowed(h, n, i, c, rgt, takeFromRightSiblingLeaf(h[c], h[rgt]))
        ELSE IF i # 0 /\ len(h[lft].values) > N.bmin
        THEN borrowed(h, n, i - 1, c, lft, takeFromLeftSiblingLeaf(h[c], h[lft]))
        ELSE IF i # 0 /\ (i = len(N.children) - 1
                          \/ len(h[lft].values) < len(h[rgt].values))
        THEN [mergeLeafs(h, lft, c) EXCEPT ![n] = deleteChild(N, i)]
        ELSE [mergeLeafs(h, c, rgt) EXCEPT ![n] = deleteChild(N, i + 1)]

balanceLeaf(h, n, i) ==
    LET N == h[n]
        c == at(N.children, i)
        lft == at(N.children, i - 1)
        rgt == at(N.children, i + 1)
    IN  IF i # 0 /\ len(h[lft].values) > N.bmin
        THEN borrowed(h, n, i - 1, c, lft, takeFromLeftSiblingLeaf(h[c], h[lft]))
        ELSE IF i # len(N.children) - 1 /\ len(h[rgt].values) > N.bmin
        THEN borrowed(h, n, i, c, rgt, takeFromRightSiblingLeaf(h[c], h[rgt]))
        ELSE IF i # 0 /\ (i = len(N.children) - 1
                          \/ len(h[lft].values) < len(h[rgt].values))
        THEN [mergeLeafs(h, lft, c) EXCEPT ![n] = deleteChild(N, i)]
        ELSE [mergeLeafs(h, c, rgt) EXCEPT ![n] = deleteChild(N, i + 1)]

balanceInternal(h, n, i) ==
    LET N == h[n]
        c == at(N.children, i)
        lft == at(N.children, i - 1)
        rgt == at(N.children, i + 1)
    IN  IF i # 0 /\ len(h[lft].children) > N.bmin
        THEN borrowed(h, n, i - 1, c, lft,
                      takeFromLeftSiblingInternal(h[c], h[lft], at(N.keys, i - 1)))
        ELSE IF i # len(N.children) - 1 /\ len(h[rgt].children) > N.bmin
        THEN borrowed(h, n, i, c, rgt,
                      takeFromRightSiblingInternal(h[c], h[rgt], at(N.keys, i)))
        ELSE IF i # 0 /\ (i = len(N.children) - 1
                          \/ len(h[lft].children) < len(h[rgt].children))
        THEN [mergeInternal(h, lft, c, at(N.keys, i - 1)) EXCEPT
                 ![n] = deleteChild(N, i)]
        ELSE [mergeInternal(h, c, rgt, at(N.keys, i)) EXCEPT
                 ![n] = deleteChild(N, i + 1)]

(***************************************************************************)
(* node.delete; the result is [h, val, ok].                                *)
(***************************************************************************)
RECURSIVE node_delete(_, _, _, _, _)
node_delete(h, n, key, all, idx) ==
    IF isLeaf(h[n]) THEN deleteFromLeaf(h, n, key, all, idx)
    ELSE LET i == childLoop(h[n], key, 0)
             c == at(h[n].children, i)
             r == IF i < 0 THEN [h |-> h, val |-> NilValue, ok |-> FALSE]
                  ELSE node_delete(h, c, key, all, idx)
         IN  IF ~r.ok THEN r
             ELSE IF isLeaf(r.h[c])
             THEN IF len(r.h[c].values) < r.h[n].bmin
                  THEN [r EXCEPT !.h = balanceLeaf(r.h, n, i)] ELSE r
             ELSE IF len(r.h[c].children) < r.h[n].bmin
                  THEN [r EXCEPT !.h = balanceInternal(r.h, n, i)] ELSE r

(***************************************************************************)
(* BPTree.delete; the result is [t, val, ok]: the tree after the call and  *)
(* the (any, bool) returned.                                               *)
(***************************************************************************)
\* deleteRoot with t.size-- outside if ok
deleteRoot_always(t, res, all) ==
    LET R == res.h[t.root]
        r1 == IF isInternal(R) /\ len(R.children) = 1
              THEN at(R.children, 0) ELSE t.root
    IN  IF res.ok
        THEN [t |-> [h |-> res.h, root |-> r1,
                     size |-> IF all THEN t.size - Len(res.val.c) ELSE t.size - 1],
              val |-> res.val, ok |-> TRUE]
        ELSE [t |-> [t EXCEPT !.h = res.h, !.size = t.size - 1],
              val |-> res.val, ok |-> FALSE]

\* deleteRoot without the replacement of a root left with one child
deleteRoot_keep(t, res, all) ==
    IF res.ok
    THEN [t |-> [h |-> res.h, root |-> t.root,
                 size |-> IF all THEN t.size - Len(res.val.c) ELSE t.size - 1],
          val |-> res.val, ok |-> TRUE]
    ELSE [t |-> [t EXCEPT !.h = res.h], val |-> res.val, ok |-> FALSE]

\* the part of BPTree.delete after t.root.delete returned res = [h, val, ok]
deleteRoot(t, res, all) ==
    LET R == res.h[t.root]
        r1 == IF isInternal(R) /\ len(R.children) = 1
              THEN at(R.children, 0) ELSE t.root
    IN  IF res.ok
        THEN [t |-> [h |-> res.h, root |-> r1,
                     size |-> IF all THEN t.size - Len(res.val.c) ELSE t.size - 1],
              val |-> res.val, ok |-> TRUE]
        ELSE [t |-> [t EXCEPT !.h = res.h], val |-> res.val, ok |-> FALSE]

delete(t, key, all, idx) ==
    deleteRoot(t, node_delete(t.h, t.root, key, all, idx), all)

\* Clear taking cap(t.root.keys) whatever the root is
Clear_keys(t) ==
    [h |-> <<newLeafNode(cap(t.h[t.root].keys))>>, root |-> 1, size |-> 0]

\* BPTree.Clear: the tree after the call
Clear(t) ==
    [h |-> <<IF isLeaf(t.h[t.root]) THEN newLeafNode(cap(t.h[t.root].keys))
             ELSE newLeafNode(cap(t.h[t.root].children))>>,
     root |-> 1, size |-> 0]

(***************************************************************************)
(* type iterator: [from, to, n, i, c, ckey, ci].  A *K is <<>> (nil) or    *)
(* <<k>>; c is NilValue (nil) or a collision.  KeyValue is [Key, Value].   *)
(***************************************************************************)
ZeroKeyValue == [Key |-> ZeroK, Value |-> NilValue]
ZeroIterator ==
    [from |-> <<>>, to |-> <<>>, n |-> Nil, i |-> 0, c |-> NilValue,
     ckey |-> ZeroK, ci |-> 0]

\* slotLoop with the upper bound taken in: k > *i.to
RECURSIVE slotLoop_inclusive(_, _)
slotLoop_inclusive(h, it) ==
    IF it.i >= len(h[it.n].keys) THEN [how |-> "exhausted", it |-> it]
    ELSE LET N == h[it.n]
             k == at(N.keys, it.i)
         IN  IF it.from # <<>> /\ k < it.from[1]
             THEN slotLoop_inclusive(h, [it EXCEPT !.i = it.i + 1])
             ELSE IF it.to # <<>> /\ k > it.to[1]
             THEN [how |-> "break", it |-> [it EXCEPT !.n = Nil]]
             ELSE IF isCollision(at(N.values, it.i))
             THEN LET c == at(N.values, it.i)
                  IN  [how |-> "return",
                       it |-> [it EXCEPT !.c = c, !.ckey = at(N.keys, it.i),
                                         !.ci = 1, !.i = it.i + 1],
                       kv |-> [Key |-> at(N.keys, it.i), Value |-> solo(c.c[1])]]
             ELSE [how |-> "return", it |-> [it EXCEPT !.i = it.i + 1],
                   kv |-> [Key |-> at(N.keys, it.i), Value |-> at(N.values, it.i)]]

\* the inner loop of Next, for ; i.i < len(i.n.keys); i.i++
RECURSIVE slotLoop(_, _)
slotLoop(h, it) ==
    IF it.i >= len(h[it.n].keys) THEN [how |-> "exhausted", it |-> it]
    ELSE LET N == h[it.n]
             k == at(N.keys, it.i)
         IN  IF it.from # <<>> /\ k < it.from[1]
             THEN slotLoop(h, [it EXCEPT !.i = it.i + 1])
             ELSE IF it.to # <<>> /\ k >= it.to[1]
             THEN [how |-> "break", it |-> [it EXCEPT !.n = Nil]]
             ELSE IF isCollision(at(N.values, it.i))
             THEN LET c == at(N.values, it.i)
                  IN  [how |-> "return",
                       it |-> [it EXCEPT !.c = c, !.ckey = at(N.keys, it.i),
                                         !.ci = 1, !.i = it.i + 1],
                       kv |-> [Key |-> at(N.keys, it.i), Value |-> solo(c.c[1])]]
             ELSE [how |-> "return", it |-> [it EXCEPT !.i = it.i + 1],
                   kv |-> [Key |-> at(N.keys, it.i), Value |-> at(N.values, it.i)]]

\* iterator.Next without i.ci++ in the bucket
RECURSIVE iterator_Next_stuck(_, _)
iterator_Next_stuck(h, it) ==
    IF it.n = Nil THEN [it |-> it, kv |-> ZeroKeyValue, ok |-> FALSE]
    ELSE IF it.c # NilValue /\ it.ci < Len(it.c.c)
    THEN [it |-> it,
          kv |-> [Key |-> it.ckey, Value |-> solo(it.c.c[it.ci + 1])], ok |-> TRUE]
    ELSE LET it1 == IF it.c # NilValue THEN [it EXCEPT !.c = NilValue] ELSE it
             s == slotLoop(h, it1)
         IN  IF s.how = "return" THEN [it |-> s.it, kv |-> s.kv, ok |-> TRUE]
             ELSE IF s.how = "break"
             THEN [it |-> s.it, kv |-> ZeroKeyValue, ok |-> FALSE]
             ELSE iterator_Next_stuck(h, [s.it EXCEPT !.n = h[s.it.n].right, !.i = 0])

\* iterator.Next leaving the bucket one entry early
RECURSIVE iterator_Next_early(_, _)
iterator_Next_early(h, it) ==
    IF it.n = Nil THEN [it |-> it, kv |-> ZeroKeyValue, ok |-> FALSE]
    ELSE IF it.c # NilValue /\ it.ci + 1 < Len(it.c.c)
    THEN [it |-> [it EXCEPT !.ci = it.ci + 1],
          kv |-> [Key |-> it.ckey, Value |-> solo(it.c.c[it.ci + 1])], ok |-> TRUE]
    ELSE LET it1 == IF it.c # NilValue THEN [it EXCEPT !.c = NilValue] ELSE it
             s == slotLoop(h, it1)
         IN  IF s.how = "return" THEN [it |-> s.it, kv |-> s.kv, ok |-> TRUE]
             ELSE IF s.how = "break"
             THEN [it |-> s.it, kv |-> ZeroKeyValue, ok |-> FALSE]
             ELSE iterator_Next_early(h, [s.it EXCEPT !.n = h[s.it.n].right, !.i = 0])

\* iterator.Next: [it, kv, ok]
RECURSIVE iterator_Next(_, _)
iterator_Next(h, it) ==
    IF it.n = Nil THEN [it |-> it, kv |-> ZeroKeyValue, ok |-> FALSE]
    ELSE IF it.c # NilValue /\ it.ci < Len(it.c.c)
    THEN [it |-> [it EXCEPT !.ci = it.ci + 1],
          kv |-> [Key |-> it.ckey, Value |-> solo(it.c.c[it.ci + 1])], ok |-> TRUE]
    ELSE LET it1 == IF it.c # NilValue THEN [it EXCEPT !.c = NilValue] ELSE it
             s == slotLoop(h, it1)
         IN  IF s.how = "return" THEN [it |-> s.it, kv |-> s.kv, ok |-> TRUE]
             ELSE IF s.how = "break"
             THEN [it |-> s.it, kv |-> ZeroKeyValue, ok |-> FALSE]
             ELSE iterator_Next(h, [s.it EXCEPT !.n = h[s.it.n].right, !.i = 0])

\* the descent of BPTree.Iterator
RECURSIVE iterLoop(_, _, _)
iterLoop(N, from, i) ==
    IF i >= len(N.children) THEN 0 - 1
    ELSE IF from = <<>> \/ i = len(N.keys) \/ from[1] < at(N.keys, i) THEN i
    ELSE iterLoop(N, from, i + 1)

RECURSIVE iterLeaf(_, _, _)
iterLeaf(h, n, from) ==
    IF isInternal(h[n])
    THEN LET i == iterLoop(h[n], from, 0)
         IN  IF i < 0 THEN panic ELSE iterLeaf(h, at(h[n].children, i), from)
    ELSE n

Iterator(t, from, to) ==
    IF from # <<>> /\ to # <<>> /\ from[1] >= to[1] THEN ZeroIterator
    ELSE [ZeroIterator EXCEPT !.from = from, !.to = to,
                              !.n = iterLeaf(t.h, t.root, from)]

RECURSIVE rangeLoop(_, _, _)
rangeLoop(h, it, result) ==
    LET s == iterator_Next(h, it)
    IN  IF s.ok THEN rangeLoop(h, s.it, Append(result, s.kv)) ELSE result

\* []KeyValue; nil is <<>>
Range(t, from, to) == rangeLoop(t.h, Iterator(t, from, to), <<>>)
Entries(t) == Range(t, <<>>, <<>>)

(***************************************************************************)
(* First and Last.  The outcome is (KeyValue, bool) as [kv, ok], with      *)
(* panics set when the call ends in a run-time panic instead of a return   *)
(* (an index out of range on the keys or values of the leaf).              *)
(***************************************************************************)
Returned(kv, ok) == [kv |-> kv, ok |-> ok, panics |-> FALSE]
IndexOutOfRange == [kv |-> ZeroKeyValue, ok |-> FALSE, panics |-> TRUE]

\* for n.isInternal() { n = n.children[0] }
RECURSIVE firstLeaf(_, _)
firstLeaf(h, n) ==
    IF isInternal(h[n]) THEN firstLeaf(h, at(h[n].children, 0)) ELSE n

\* for n.isInternal() { n = n.children[len(n.children)-1] }
RECURSIVE lastLeaf(_, _)
lastLeaf(h, n) ==
    IF isInternal(h[n])
    THEN lastLeaf(h, at(h[n].children, len(h[n].children) - 1))
    ELSE n

\* if c, ok := v.(collision[V]); ok { v = c[0] }
firstValue(v) == IF isCollision(v) THEN solo(v.c[1]) ELSE v

\* lastValue taking c[0]
lastValue_front(v) == IF isCollision(v) THEN solo(v.c[1]) ELSE v

\* if c, ok := v.(collision[V]); ok { v = c[len(c)-1] }
lastValue(v) == IF isCollision(v) THEN solo(v.c[Len(v.c)]) ELSE v

First(t) ==
    IF t.size = 0 THEN Returned(ZeroKeyValue, FALSE)
    ELSE LET N == t.h[firstLeaf(t.h, t.root)]
         IN  IF len(N.values) = 0 \/ len(N.keys) = 0 THEN IndexOutOfRange
             ELSE Returned([Key |-> at(N.keys, 0),
                            Value |-> firstValue(at(N.values, 0))], TRUE)

Last(t) ==
    IF t.size = 0 THEN Returned(ZeroKeyValue, FALSE)
    ELSE LET N == t.h[lastLeaf(t.h, t.root)]
         IN  IF len(N.values) = 0 \/ len(N.keys) = 0 THEN IndexOutOfRange
             ELSE Returned([Key |-> at(N.keys, len(N.keys) - 1),
                            Value |-> lastValue(at(N.values, len(N.values) - 1))],
                           TRUE)

(***************************************************************************)
(* Node addresses carry no meaning and unreachable nodes are garbage: the  *)
(* tree is stored with its nodes numbered in breadth-first order from the  *)
(* root.  A pointer to a node that is no longer part of the tree becomes   *)
(* Unreachable.                                                            *)
(***************************************************************************)
Unreachable == -1

RECURSIVE bfs(_, _, _)
bfs(h, order, i) ==
    IF i > Len(order) THEN order
    ELSE bfs(h, order \o (IF isInternal(h[order[i]])
                          THEN elems(h[order[i]].children) ELSE <<>>), i + 1)

Canon(t) ==
    LET order == bfs(t.h, <<t.root>>, 1)
        idx(p) == IF p = Nil THEN Nil
                  ELSE IF \E j \in 1..Len(order) : order[j] = p
                  THEN CHOOSE j \in 1..Len(order) : order[j] = p
                  ELSE Unreachable
        move(N) == [N EXCEPT
                      !.left = idx(N.left), !.right = idx(N.right),
                      !.children = [a |-> array([j \in 1..cap(N.children) |->
                                                     idx(N.children.a[j])]),
                                    n |-> N.children.n]]
    IN  [h |-> array([j \in 1..Len(order) |-> move(t.h[order[j]])]),
         root |-> 1, size |-> t.size]

(***************************************************************************)
(* The other public methods of BPTree.  A mutating method gives the tree   *)
(* after the call, with what the call returns.                             *)
(***************************************************************************)
\* NewBPTree without the test of order < MinOrder
NewBPTree_asGiven(order) == [h |-> <<newLeafNode(order)>>, root |-> 1, size |-> 0]

NewBPTree(order) ==
    [h |-> <<newLeafNode(IF order < MinOrder THEN MinOrder ELSE order)>>,
     root |-> 1, size |-> 0]

Size(t) == t.size

Insert(t, key, val) == insert(t, key, val, TRUE)
Append_(t, key, val) == insert(t, key, val, FALSE)

\* if v, ok := t.delete(...); ok { return v.(V), true }; return
\* (val V, ok bool) as [t, val, ok]
returnV(d) == [t |-> d.t, val |-> IF d.ok THEN d.val.c[1] ELSE ZeroV, ok |-> d.ok]
\* returnAll with the first value only
returnAll_first(d) ==
    [t |-> d.t, vals |-> IF d.ok THEN <<d.val.c[1]>> ELSE <<>>, ok |-> d.ok]

\* (vals []V, ok bool) as [t, vals, ok]
returnAll(d) == [t |-> d.t, vals |-> IF d.ok THEN d.val.c ELSE <<>>, ok |-> d.ok]

\* Delete removing at index 0
Delete_first(t, key) == returnV(delete(t, key, FALSE, 0))
Delete(t, key) == returnV(delete(t, key, FALSE, 0 - 1))
DeleteOne(t, key, idx) == returnV(delete(t, key, FALSE, idx))
DeleteAll(t, key) == returnAll(delete(t, key, TRUE, 0))

(***************************************************************************)
(* The state machine: one action per public mutating call.                 *)
(***************************************************************************)
tree == [h |-> heap, root |-> root, size |-> size]

Store(t) ==
    LET c == Canon(t)
    IN  heap' = c.h /\ root' = c.root /\ size' = c.size

\* the reference map with key k bound to the values vs (unbound when empty)
Bind(m, k, vs) ==
    IF vs = <<>> THEN [j \in DOMAIN m \ {k} |-> m[j]]
    ELSE [j \in DOMAIN m \cup {k} |-> IF j = k THEN vs ELSE m[j]]
Bound(m, k) == IF k \in DOMAIN m THEN m[k] ELSE <<>>

\* the reference semantics of a removal at idx (last entry when idx < 0)
Without(vs, idx) ==
    IF vs = <<>> \/ idx >= Len(vs) THEN vs
    ELSE IF idx < 0 THEN SubSeq(vs, 1, Len(vs) - 1)
    ELSE SubSeq(vs, 1, idx) \o SubSeq(vs, idx + 2, Len(vs))

CallInsert(key, val) ==
    /\ Store(Insert(tree, key, val))
    /\ model' = Bind(model, key, <<val>>)

CallAppend(key, val) ==
    /\ Store(Append_(tree, key, val))
    /\ model' = Bind(model, key, Append(Bound(model, key), val))

CallDelete(key) ==
    /\ Store(Delete(tree, key).t)
    /\ model' = Bind(model, key, Without(Bound(model, key), 0 - 1))

CallDeleteOne(key, idx) ==
    /\ Store(DeleteOne(tree, key, idx).t)
    /\ model' = Bind(model, key, Without(Bound(model, key), idx))

CallDeleteAll(key) ==
    /\ Store(DeleteAll(tree, key).t)
    /\ model' = Bind(model, key, <<>>)

CallClear ==
    /\ Store(Clear(tree))
    /\ model' = <<>>

InitOrder(order) ==
    LET t == NewBPTree(order)
    IN  heap = t.h /\ root = t.root /\ size = t.size /\ model = <<>>

(***************************************************************************)
(* Spec: every public call on a tree of order MinOrder, keys 1..MaxKey,    *)
(* values 1..MaxVal.  Buckets and the size counter are unbounded in the    *)
(* code; here Append is called on buckets shorter than MaxBucket and       *)
(* Insert and Append while size < MaxSize.                                 *)
(***************************************************************************)
Keys == 1..MaxKey
Vals == 1..MaxVal
Idxs == (0 - 1)..MaxBucket

Init == InitOrder(MinOrder)

Next ==
    \/ \E key \in Keys, val \in Vals : size < MaxSize /\ CallInsert(key, val)
    \/ \E key \in Keys, val \in Vals :
          /\ size < MaxSize
          /\ Len(FindAll(tree, key).vals) < MaxBucket
          /\ CallAppend(key, val)
    \/ \E key \in Keys : CallDelete(key)
    \/ \E key \in Keys, idx \in Idxs : CallDeleteOne(key, idx)
    \/ \E key \in Keys : CallDeleteAll(key)
    \/ CallClear

Spec == Init /\ [][Next]_vars

(***************************************************************************)
(* SpecTree: Insert and Delete on keys 1..MaxTreeKey of a tree of order    *)
(* MinOrder, each key with the value the tests give it (valueForKey);      *)
(* trees of height 3 are reached.                                          *)
(***************************************************************************)
valueForKey(key) == key + 100

TreeKeys == 1..MaxTreeKey

NextTree ==
    \/ \E key \in TreeKeys : CallInsert(key, valueForKey(key))
    \/ \E key \in TreeKeys : CallDelete(key)

SpecTree == Init /\ [][NextTree]_vars

(***************************************************************************)
(* SpecIns: the distinct keys 1..MaxInsKey inserted in every order into a  *)
(* tree of every order MinOrder..MaxOrder.                                 *)
(***************************************************************************)
Orders == MinOrder..MaxOrder
InsKeys == 1..MaxInsKey

InitIns == \E order \in Orders : InitOrder(order)

NextIns ==
    \E key \in InsKeys \ DOMAIN model : CallInsert(key, valueForKey(key))

SpecIns == InitIns /\ [][NextIns]_vars

(***************************************************************************)
(* SpecDel: distinct keys 1..MaxInsKey inserted into a tree of every order *)
(* MinOrder..MaxOrder and stored keys deleted, in every order.             *)
(***************************************************************************)
NextDel ==
    \/ \E key \in InsKeys \ DOMAIN model : CallInsert(key, valueForKey(key))
    \/ \E key \in DOMAIN model : CallDelete(key)

SpecDel == InitIns /\ [][NextDel]_vars

(***************************************************************************)
(* SpecLow: the calls of SpecTree on a tree constructed with an order      *)
(* below MinOrder (zero and negative orders included).                     *)
(***************************************************************************)
LowOrders == (MinOrder - MaxBelow)..(MinOrder - 1)

InitLow == \E order \in LowOrders : InitOrder(order)

SpecLow == InitLow /\ [][NextTree]_vars

(***************************************************************************)
(* SpecDeep: distinct keys 1..MaxDeepKey inserted into a tree of order     *)
(* MinOrder and stored keys deleted, in every order; trees of three levels *)
(* with internal nodes above bmin are reached.                             *)
(***************************************************************************)
DeepKeys == 1..MaxDeepKey

NextDeep ==
    \/ \E key \in DeepKeys \ DOMAIN model : CallInsert(key, valueForKey(key))
    \/ \E key \in DOMAIN model : CallDelete(key)

SpecDeep == Init /\ [][NextDeep]_vars

(***************************************************************************)
(* SpecMem: the calls of SpecTree and, on the first and the last key,      *)
(* Append (on buckets shorter than MaxBucket, while size < MaxMemSize) and *)
(* DeleteOne: trees of three levels with buckets at both ends.             *)
(***************************************************************************)
BucketKeys == {1, MaxTreeKey}
NextMem ==
    \/ \E key \in TreeKeys : CallInsert(key, valueForKey(key))
    \/ \E key \in TreeKeys : CallDelete(key)
    \/ \E key \in BucketKeys \cap DOMAIN model :
          /\ size < MaxMemSize
          /\ Len(model[key]) < MaxBucket
          /\ CallAppend(key, valueForKey(key))
    \/ \E key \in BucketKeys, idx \in Idxs : CallDeleteOne(key, idx)
SpecMem == Init /\ [][NextMem]_vars

(***************************************************************************)
(* Properties.  A property about a call is stated on every reachable tree: *)
(* the call is applied to `tree` and its result compared with what was     *)
(* there before.                                                           *)
(***************************************************************************)
\* the values stored at key, in order (none when the key is absent)
ValuesAt(t, key) == FindAll(t, key).vals
Present(t, key) == Find(t, key).ok
Found(v) == [ok |-> TRUE, val |-> v]
FoundAll(vs) == [ok |-> TRUE, vals |-> vs]
NotFound == [ok |-> FALSE, val |-> ZeroV]
NotFoundAll == [ok |-> FALSE, vals |-> <<>>]
\* every key of K other than key has in t1 the FindAll result it has in tree
OthersKept(t1, key, K) == \A j \in K \ {key} : FindAll(t1, j) = FindAll(tree, j)
TwoLeaves == isInternal(heap[root])
\* the values a call on key is tried with: the one the key has and another
ProbeVals(key) == {valueForKey(key), valueForKey(key) + 1}
\* the keys a call is tried with: Keys and two keys no tree holds
ProbeKeys == 0..(MaxKey + 1)

\* C1: Size() equals the number of pairs Entries() yields, after every
\* sequence of Insert, Append, Delete, DeleteOne, DeleteAll and Clear.
\* Violated: Insert on a key that holds a bucket drops the bucket's entries
\* and leaves size as it was.
SizeCountsEntries == Size(tree) = Len(Entries(tree))

\* C2: after the distinct keys S = DOMAIN model were inserted, in whatever
\* order, into a tree of order 3 or larger, Entries() is exactly the pairs of
\* S, each once, strictly ascending by key.
EntriesSorted ==
    LET e == Entries(tree)
    IN  /\ Len(e) = Cardinality(DOMAIN model)
        /\ {e[i].Key : i \in 1..Len(e)} = DOMAIN model
        /\ \A i \in 1..Len(e) : e[i].Value = solo(valueForKey(e[i].Key))
        /\ \A i \in 1..(Len(e) - 1) : e[i].Key < e[i + 1].Key

\* all keys are in, and the tree has grown to three levels
EntriesSortedWitness ==
    /\ DOMAIN model = InsKeys
    /\ isInternal(heap[root])
    /\ isInternal(heap[at(heap[root].children, 0)])
    /\ Len(Entries(tree)) = MaxInsKey

\* C3: on every reachable tree, for every (k, v): after Insert(k, v),
\* Find(k) = (v, true) and every other key present before is found with the
\* value it had.
InsertThenFind ==
    \A k \in TreeKeys : \A v \in ProbeVals(k) :
        LET t1 == Insert(tree, k, v)
        IN  /\ Find(t1, k) = Found(v)
            /\ \A j \in TreeKeys \ {k} : Present(tree, j) => Find(t1, j) = Find(tree, j)

\* an Insert that splits a leaf, splits the internal root and promotes a new
\* root, with the key found afterwards
InsertThenFindWitness ==
    \E k \in TreeKeys :
        LET t1 == Insert(tree, k, valueForKey(k))
        IN  /\ ~Present(tree, k)
            /\ isInternal(heap[root])
            /\ t1.root # root
            /\ Find(t1, k) = Found(valueForKey(k))
            /\ \E j \in TreeKeys \ {k} : Present(tree, j)

AppendAccumulates ==
    \A k \in Keys :
        /\ \A v \in Vals :
              LET t1 == Append_(tree, k, v)
                  vs == ValuesAt(tree, k) \o <<v>>
              IN  /\ FindAll(t1, k) = FoundAll(vs)
                  /\ Find(t1, k) = Found(vs[1])
                  /\ Size(t1) = Size(tree) + 1
                  /\ OthersKept(t1, k, Keys)
        /\ \A v \in Vals : OthersKept(Insert(tree, k, v), k, Keys)
        /\ OthersKept(Delete(tree, k).t, k, Keys)
        /\ \A idx \in Idxs : OthersKept(DeleteOne(tree, k, idx).t, k, Keys)
        /\ OthersKept(DeleteAll(tree, k).t, k, Keys)

\* a key of a two-level tree holds [v1, v2], v1 # v2, as the calls recorded in
\* model appended them, and a third Append goes behind them
AppendAccumulatesWitness ==
    \E k \in Keys, v \in Vals :
        LET vs == ValuesAt(tree, k)
        IN  /\ Len(vs) = 2 /\ vs[1] # vs[2]
            /\ vs = Bound(model, k)
            /\ TwoLeaves
            /\ FindAll(Append_(tree, k, v), k) = FoundAll(<<vs[1], vs[2], v>>)

\* C6: Delete(k) on a present key returns (value, true) and removes exactly
\* one value: a solo value goes with its key; of a bucket the last entry is
\* returned and removed, the others stay in order, and the key goes only when
\* no entry remains.  Size() decreases by exactly 1.
DeleteRemovesLast ==
    \A k \in Keys :
        Present(tree, k) =>
            LET vs == ValuesAt(tree, k)
                d == Delete(tree, k)
                front == SubSeq(vs, 1, Len(vs) - 1)
            IN  /\ d.ok /\ d.val = vs[Len(vs)]
                /\ Size(d.t) = Size(tree) - 1
                /\ IF front = <<>>
                   THEN Find(d.t, k) = NotFound /\ FindAll(d.t, k) = NotFoundAll
                   ELSE FindAll(d.t, k) = FoundAll(front) /\ Find(d.t, k) = Found(vs[1])
                /\ OthersKept(d.t, k, Keys)

\* in a two-level tree a bucket of two entries loses its last, which differs
\* from its first, and a Delete of a solo value empties a leaf below its
\* minimum so that the tree shrinks to one level
DeleteRemovesLastWitness ==
    /\ TwoLeaves
    /\ \E k \in Keys :
          LET vs == ValuesAt(tree, k)
          IN  /\ Len(vs) = 2 /\ vs[1] # vs[2]
              /\ Delete(tree, k).val = vs[2]
              /\ ValuesAt(Delete(tree, k).t, k) = <<vs[1]>>
    /\ \E k \in Keys :
          /\ ~isCollision(find(tree, k).v)
          /\ Delete(tree, k).ok
          /\ isLeaf(Delete(tree, k).t.h[Delete(tree, k).t.root])

\* C7: DeleteOne(k, idx) with 0 <= idx < n on a bucket of n entries returns
\* and removes the entry at idx, the others keeping their order; with idx < 0
\* the last entry; on a solo value every idx <= 0 removes the key and returns
\* the value.
DeleteOneAtIndex ==
    \A k \in Keys, idx \in Idxs :
        LET vs == ValuesAt(tree, k)
            d == DeleteOne(tree, k, idx)
            at0 == IF idx < 0 THEN Len(vs) ELSE idx + 1
            rest == SubSeq(vs, 1, at0 - 1) \o SubSeq(vs, at0 + 1, Len(vs))
        IN  Present(tree, k) /\ idx < Len(vs) =>
                /\ d.ok /\ d.val = vs[at0]
                /\ IF rest = <<>> THEN FindAll(d.t, k) = NotFoundAll
                   ELSE FindAll(d.t, k) = FoundAll(rest)
                /\ ~isCollision(find(tree, k).v) => Find(d.t, k) = NotFound

\* the middle entry of a bucket of three leaves the other two, a negative
\* idx takes the last of a bucket, and idx 0 removes a solo value
DeleteOneAtIndexWitness ==
    /\ \E k \in Keys :
          LET vs == ValuesAt(tree, k)
          IN  /\ Len(vs) = 3 /\ vs[2] # vs[1]
              /\ DeleteOne(tree, k, 1).val = vs[2]
              /\ ValuesAt(DeleteOne(tree, k, 1).t, k) = <<vs[1], vs[3]>>
              /\ DeleteOne(tree, k, 0 - 1).val = vs[3]
    /\ \E k \in Keys :
          /\ find(tree, k).ok /\ ~isCollision(find(tree, k).v)
          /\ DeleteOne(tree, k, 0).ok
          /\ ~Present(DeleteOne(tree, k, 0).t, k)

\* C8: DeleteAll(k) on a present key returns (all its values in insertion
\* order, true) and removes the key: Find(k) and FindAll(k) report not-found
\* and Size() has decreased by the number of values returned.
DeleteAllRemovesKey ==
    \A k \in Keys :
        Present(tree, k) =>
            LET d == DeleteAll(tree, k)
            IN  /\ d.ok /\ d.vals = ValuesAt(tree, k)
                /\ d.vals = Bound(model, k)
                /\ Find(d.t, k) = NotFound
                /\ FindAll(d.t, k) = NotFoundAll
                /\ Size(d.t) = Size(tree) - Len(d.vals)
                /\ OthersKept(d.t, k, Keys)

\* a bucket [v1, v2], v1 # v2, and a solo value are each removed whole from a
\* two-level tree
DeleteAllRemovesKeyWitness ==
    /\ TwoLeaves
    /\ \E k \in Keys :
          /\ Len(ValuesAt(tree, k)) = 2
          /\ ValuesAt(tree, k)[1] # ValuesAt(tree, k)[2]
          /\ DeleteAll(tree, k).vals = ValuesAt(tree, k)
          /\ Size(DeleteAll(tree, k).t) = Size(tree) - 2
    /\ \E k \in Keys :
          /\ find(tree, k).ok /\ ~isCollision(find(tree, k).v)
          /\ Len(DeleteAll(tree, k).vals) = 1

\* C9: Delete, DeleteOne and DeleteAll on an absent key, and DeleteOne with
\* idx >= the bucket length (idx > 0 on a solo value), return (zero, false)
\* without a panic and leave the tree, every node of it and Size(), as they
\* were.
FailedDeleteChangesNothing ==
    \A k \in ProbeKeys :
        /\ ~Present(tree, k) =>
              /\ Delete(tree, k) = [t |-> tree, val |-> ZeroV, ok |-> FALSE]
              /\ DeleteAll(tree, k) = [t |-> tree, vals |-> <<>>, ok |-> FALSE]
              /\ \A idx \in Idxs :
                    DeleteOne(tree, k, idx) = [t |-> tree, val |-> ZeroV, ok |-> FALSE]
        /\ \A idx \in Idxs :
              Present(tree, k) /\ idx >= Len(ValuesAt(tree, k)) =>
                  DeleteOne(tree, k, idx) = [t |-> tree, val |-> ZeroV, ok |-> FALSE]

\* a two-level tree with an absent key, a bucket of two entries asked for
\* idx 2 and a solo value asked for idx 1
FailedDeleteChangesNothingWitness ==
    /\ TwoLeaves
    /\ \E k \in ProbeKeys : ~Present(tree, k) /\ ~Delete(tree, k).ok
    /\ \E k \in Keys :
          /\ isCollision(find(tree, k).v) /\ Len(ValuesAt(tree, k)) = 2
          /\ ~DeleteOne(tree, k, 2).ok
    /\ \E k \in Keys :
          /\ find(tree, k).ok /\ ~isCollision(find(tree, k).v)
          /\ ~DeleteOne(tree, k, 1).ok

\* C10: on every reachable tree, for every absent key k and every v:
\* Insert(k, v) then Delete(k) returns (v, true), k is not found, every other
\* key has the FindAll result it had, and Size() is what it was.
InsertThenDelete ==
    \A k \in TreeKeys : \A v \in ProbeVals(k) :
        ~Present(tree, k) =>
            LET d == Delete(Insert(tree, k, v), k)
            IN  /\ d.ok /\ d.val = v
                /\ Find(d.t, k) = NotFound
                /\ OthersKept(d.t, k, TreeKeys)
                /\ Size(d.t) = Size(tree)

\* the Insert splits the root of a two-level tree and promotes a new one, and
\* the Delete merges the tree back to two levels
InsertThenDeleteWitness ==
    \E k \in TreeKeys :
        LET t1 == Insert(tree, k, valueForKey(k))
            d == Delete(t1, k)
        IN  /\ ~Present(tree, k)
            /\ isInternal(heap[root])
            /\ t1.root # root
            /\ d.ok /\ d.t.root # t1.root
            /\ \E j \in TreeKeys \ {k} : Present(tree, j)

\* the pairs the calls recorded in model stored under the keys lo..hi-1, in
\* ascending key order, every value of a key in the order it was added
RECURSIVE PairsOf(_, _, _)
PairsOf(m, lo, hi) ==
    IF lo >= hi THEN <<>>
    ELSE [i \in 1..Len(Bound(m, lo)) |-> [Key |-> lo, Value |-> solo(m[lo][i])]]
         \o PairsOf(m, lo + 1, hi)
\* an optional bound: <<>> (absent) or <<k>>, k a key stored or not
BoundsOf(K) == {<<>>} \cup {<<k>> : k \in K}
ThreeLevels == isInternal(heap[root]) /\ isInternal(heap[at(heap[root].children, 0)])
TreeProbeKeys == 0..(MaxTreeKey + 1)

\* C11: on every tree built by inserts and deletes, for every pair of
\* optional bounds from, to (absent, a stored key or a key not stored),
\* Range(from, to) is exactly the stored pairs with from <= key < to in
\* ascending key order, an absent bound leaving its side open; it is empty
\* when both are present and from >= to.
RangeHalfOpen ==
    \A from \in BoundsOf(TreeProbeKeys), to \in BoundsOf(TreeProbeKeys) :
        LET lo == IF from = <<>> THEN 0 ELSE from[1]
            hi == IF to = <<>> THEN MaxTreeKey + 2 ELSE to[1]
        IN  /\ Range(tree, from, to) = PairsOf(model, lo, hi)
            /\ from # <<>> /\ to # <<>> /\ from[1] >= to[1] => Range(tree, from, to) = <<>>

\* in a tree of three levels a range between two stored keys gives three
\* pairs or more, the first at from, and leaves stored pairs out on both
\* sides, the one at to among them
RangeHalfOpenWitness ==
    /\ ThreeLevels
    /\ \E from \in TreeKeys, to \in TreeKeys :
          LET r == Range(tree, <<from>>, <<to>>)
          IN  /\ Present(tree, from) /\ Present(tree, to)
              /\ Len(r) >= 3
              /\ r[1].Key = from /\ r[Len(r)].Key < to
              /\ \E k \in TreeKeys : k < from /\ Present(tree, k)


\* the smallest and the largest key of the reference map
MinKey(m) == CHOOSE k \in DOMAIN m : \A j \in DOMAIN m : k <= j
MaxKeyOf(m) == CHOOSE k \in DOMAIN m : \A j \in DOMAIN m : j <= k

\* C12: after any sequence of Insert, Append and the delete calls that
\* leaves one key or more stored, First() returns the smallest key with the
\* first value stored at it and Last() the largest key with the last value
\* stored at it, both with true.
FirstLastExtremes ==
    DOMAIN model # {} =>
        /\ First(tree) = Returned([Key |-> MinKey(model),
                                   Value |-> solo(model[MinKey(model)][1])], TRUE)
        /\ Last(tree) =
              LET k == MaxKeyOf(model)
              IN  Returned([Key |-> k, Value |-> solo(model[k][Len(model[k])])], TRUE)

\* a tree of two leaves whose largest key holds a bucket of two different
\* values, the second of which Last() returns
FirstLastExtremesWitness ==
    /\ TwoLeaves
    /\ DOMAIN model # {}
    /\ LET k == MaxKeyOf(model)
       IN  /\ Len(model[k]) = 2
           /\ model[k][1] # model[k][2]
           /\ Last(tree).kv = [Key |-> k, Value |-> solo(model[k][2])]
           /\ First(tree).kv.Key < k


\* C13: whenever the tree stores no key, at construction and after any
\* sequence of Insert, Append and delete calls that removed every key,
\* First() and Last() return the zero pair with false and do not panic.
\* Violated: both test size == 0, and size stays above zero on an empty
\* tree once an Insert has replaced a bucket; the calls then index the keys
\* and values of the empty root leaf.
FirstLastOnEmpty ==
    DOMAIN model = {} =>
        /\ First(tree) = Returned(ZeroKeyValue, FALSE)
        /\ Last(tree) = Returned(ZeroKeyValue, FALSE)


(***************************************************************************)
(* The shape of the stored tree.  Every node of heap is reachable from     *)
(* root (Canon), so the nodes of the tree are the indices of heap.         *)
(***************************************************************************)
Nodes == 1..Len(heap)
Internals == {n \in Nodes : isInternal(heap[n])}
Leaves == {n \in Nodes : isLeaf(heap[n])}
KeysOf(n) == elems(heap[n].keys)
ChildrenOf(n) == elems(heap[n].children)
Ascending(ks) == \A i \in 1..(Len(ks) - 1) : ks[i] < ks[i + 1]
\* the keys stored anywhere in the subtree of n, separators included
RECURSIVE SubtreeKeys(_)
SubtreeKeys(n) ==
    {KeysOf(n)[j] : j \in 1..Len(KeysOf(n))}
        \cup UNION {SubtreeKeys(ChildrenOf(n)[j]) : j \in 1..Len(ChildrenOf(n))}
\* the keys of the leaves below n
RECURSIVE LeafKeys(_)
LeafKeys(n) ==
    IF isLeaf(heap[n]) THEN {KeysOf(n)[j] : j \in 1..Len(KeysOf(n))}
    ELSE UNION {LeafKeys(ChildrenOf(n)[j]) : j \in 1..Len(ChildrenOf(n))}

\* C14: after every public operation, for every internal node with
\* separators k1 < ... < kn and children c0..cn, every key in the subtree of
\* ci, leaf key or separator, is >= ki and < k(i+1), with no lower bound
\* for c0 and no upper bound for cn.
SeparatorBounds ==
    \A n \in Internals :
        /\ Ascending(KeysOf(n))
        /\ \A i \in 1..Len(ChildrenOf(n)) : \A k \in SubtreeKeys(ChildrenOf(n)[i]) :
              /\ i > 1 => i - 1 <= Len(KeysOf(n)) /\ KeysOf(n)[i - 1] <= k
              /\ i <= Len(KeysOf(n)) => k < KeysOf(n)[i]

\* a root of three children with a separator that is no longer a stored key
\* (the key equal to it was deleted) and a separator that is one
SeparatorBoundsWitness ==
    /\ root \in Internals
    /\ Len(ChildrenOf(root)) = 3
    /\ \E j \in 1..Len(KeysOf(root)) : KeysOf(root)[j] \notin LeafKeys(root)
    /\ \E j \in 1..Len(KeysOf(root)) : KeysOf(root)[j] \in LeafKeys(root)


\* the order m of the stored tree: the capacity its nodes were made with
Order ==
    IF isLeaf(heap[root]) THEN cap(heap[root].keys) ELSE cap(heap[root].children)
\* ceil(m / 2)
Bmin(m) == CHOOSE b \in 0..m : 2 * b >= m /\ 2 * b < m + 2

\* C15: after every public operation every non-root leaf holds between
\* bmin = ceil(m/2) and m keys with as many value slots as keys, every
\* non-root internal node holds between bmin and m children with exactly
\* one key fewer than children, and the root leaf holds 0..m keys.
Occupancy ==
    /\ \A n \in Leaves \ {root} :
          /\ Bmin(Order) <= len(heap[n].keys) /\ len(heap[n].keys) <= Order
          /\ len(heap[n].values) = len(heap[n].keys)
    /\ \A n \in Internals \ {root} :
          /\ Bmin(Order) <= len(heap[n].children) /\ len(heap[n].children) <= Order
          /\ len(heap[n].keys) = len(heap[n].children) - 1
    /\ root \in Leaves =>
          /\ 0 <= len(heap[root].keys) /\ len(heap[root].keys) <= Order
          /\ len(heap[root].values) = len(heap[root].keys)

\* a tree of three levels: non-root internal nodes and non-root leaves, one
\* of each holding exactly bmin
OccupancyWitness ==
    /\ ThreeLevels
    /\ \E n \in Internals \ {root} : len(heap[n].children) = Bmin(Order)
    /\ \E n \in Leaves \ {root} : len(heap[n].keys) = Bmin(Order)


\* the depths at which the leaves below n lie, n being at depth d
RECURSIVE LeafDepths(_, _, _)
LeafDepths(h, n, d) ==
    IF isLeaf(h[n]) THEN {d}
    ELSE UNION {LeafDepths(h, elems(h[n].children)[j], d + 1) :
                    j \in 1..len(h[n].children)}
\* the number of levels of t: the depth of its leftmost leaf
RECURSIVE Depth(_, _)
Depth(h, n) == IF isLeaf(h[n]) THEN 1 ELSE 1 + Depth(h, at(h[n].children, 0))
Height(t) == Depth(t.h, t.root)
\* root.insert(key, ...) hands a sibling of the root back: the root splits
RootSplits(key, val, replace) ==
    node_insert(heap, root, key, val, replace).n2 # Nil
\* root.delete(key, ...) leaves an internal root with a single child
RootLeftWithOne(key, all, idx) ==
    LET res == node_delete(heap, root, key, all, idx)
    IN  res.ok /\ isInternal(res.h[root]) /\ len(res.h[root].children) = 1

\* C16: after every public operation all leaves are at the same depth from
\* the root; an Insert or Append adds a level exactly when the root itself
\* splits and leaves the height as it was otherwise, and a Delete,
\* DeleteOne or DeleteAll removes a level exactly when it leaves an
\* internal root with a single child and leaves the height as it was
\* otherwise.  (Clear builds a new root leaf in place of the tree; it is not
\* among the calls the statement on the height is about.)
UniformDepth ==
    /\ Cardinality(LeafDepths(heap, root, 1)) = 1
    /\ \A key \in TreeProbeKeys, replace \in BOOLEAN :
          Height(insert(tree, key, valueForKey(key), replace)) =
              Height(tree) + (IF RootSplits(key, valueForKey(key), replace)
                              THEN 1 ELSE 0)
    /\ \A key \in TreeProbeKeys :
          /\ Height(Delete(tree, key).t) =
                Height(tree) - (IF RootLeftWithOne(key, FALSE, 0 - 1) THEN 1 ELSE 0)
          /\ Height(DeleteOne(tree, key, 0).t) =
                Height(tree) - (IF RootLeftWithOne(key, FALSE, 0) THEN 1 ELSE 0)
          /\ Height(DeleteAll(tree, key).t) =
                Height(tree) - (IF RootLeftWithOne(key, TRUE, 0) THEN 1 ELSE 0)

\* a tree of three levels (its internal root has split) that a Delete
\* brings back to two levels, and that an Insert leaves at three
UniformDepthWitness ==
    /\ ThreeLevels
    /\ \E key \in TreeKeys :
          /\ RootLeftWithOne(key, FALSE, 0 - 1)
          /\ Height(Delete(tree, key).t) = 2
          /\ Height(Insert(tree, key, valueForKey(key))) = 3


\* the nodes of the level below the nodes of level, left to right
ChildrenOfLevel(level) ==
    LET RECURSIVE cat(_)
        cat(i) == IF i > Len(level) THEN <<>>
                  ELSE ChildrenOf(level[i]) \o cat(i + 1)
    IN  cat(1)
\* the left/right links of the nodes of level make the list of that level
Chained(level) ==
    /\ heap[level[1]].left = Nil
    /\ heap[level[Len(level)]].right = Nil
    /\ \A i \in 1..(Len(level) - 1) :
          /\ heap[level[i]].right = level[i + 1]
          /\ heap[level[i + 1]].left = level[i]
RECURSIVE ChainedFrom(_)
ChainedFrom(level) ==
    level # <<>> => Chained(level) /\ ChainedFrom(ChildrenOfLevel(level))
Parent(n) == CHOOSE p \in Internals : \E j \in 1..Len(ChildrenOf(p)) : ChildrenOf(p)[j] = n

\* C17: after every public operation, on every level of the tree the
\* left/right links form one doubly linked list of exactly the nodes of
\* that level in left-to-right tree order: left = nil at the leftmost node,
\* right = nil at the rightmost, and a.right = b if and only if b.left = a,
\* also for neighbours with different parents.
SiblingChain ==
    /\ ChainedFrom(<<root>>)
    /\ \A a \in Nodes, b \in Nodes : heap[a].right = b <=> heap[b].left = a

\* a tree of three levels: two leaves that are neighbours in the list have
\* different parents, and so have the two internal nodes below the root
SiblingChainWitness ==
    /\ ThreeLevels
    /\ \E a \in Leaves, b \in Leaves :
          heap[a].right = b /\ heap[b].left = a /\ Parent(a) # Parent(b)
    /\ \E a \in Internals, b \in Internals : heap[a].right = b /\ heap[b].left = a


\* the keys of the leaves from leaf n along the right links
RECURSIVE ChainKeys(_)
ChainKeys(n) == IF n = Nil THEN <<>> ELSE KeysOf(n) \o ChainKeys(heap[n].right)

\* C18: after every public operation the keys inside every leaf are
\* strictly ascending, and so is the concatenation of the keys of all
\* leaves along the right links from the leftmost leaf: no key occupies two
\* slots, duplicates live inside the bucket of one slot.
LeafKeysAscending ==
    /\ \A n \in Leaves : Ascending(KeysOf(n))
    /\ Ascending(ChainKeys(firstLeaf(heap, root)))
    /\ Len(ChainKeys(firstLeaf(heap, root))) = Cardinality(DOMAIN model)

\* two leaves holding four keys between them, one of the keys with a bucket
\* of two values in its one slot
LeafKeysAscendingWitness ==
    /\ TwoLeaves
    /\ Len(ChainKeys(firstLeaf(heap, root))) = 4
    /\ \E n \in Leaves : \E j \in 0..(len(heap[n].values) - 1) :
          /\ isCollision(at(heap[n].values, j))
          /\ Len(at(heap[n].values, j).c) = 2


\* isEmpty of the tests, with no node but the root left
SingleEmptyLeaf(t) ==
    /\ Len(Canon(t).h) = 1
    /\ isLeaf(t.h[t.root]) /\ ~isInternal(t.h[t.root])
    /\ len(t.h[t.root].keys) = 0 /\ len(t.h[t.root].values) = 0

\* C19: after inserting any set of distinct keys and deleting every one of
\* them with Delete in any order, each Delete returns the value inserted
\* for its key, and the Delete of the last key leaves a single empty root
\* leaf with Size() = 0 and Entries() empty.
DeleteEveryKey ==
    \A key \in DOMAIN model :
        LET d == Delete(tree, key)
        IN  /\ d.ok /\ d.val = valueForKey(key)
            /\ DOMAIN model = {key} =>
                  /\ SingleEmptyLeaf(d.t)
                  /\ Size(d.t) = 0
                  /\ Entries(d.t) = <<>>

\* a tree of order above MinOrder with one key left, the largest one, which
\* Delete removes
DeleteEveryKeyWitness ==
    /\ Order > MinOrder
    /\ DOMAIN model = {MaxInsKey}
    /\ Delete(tree, MaxInsKey).ok
    /\ SingleEmptyLeaf(Delete(tree, MaxInsKey).t)


\* the order the leaves of the stored tree were made with
LeafOrder == cap(heap[firstLeaf(heap, root)].keys)

\* C20: Clear() on any reachable tree, its root a leaf or an internal node,
\* leaves a single empty root leaf, Size() = 0 and the order m the tree had:
\* the tree NewBPTree(m) builds, so that every later sequence of operations
\* behaves as on a newly built tree of that order.
ClearGivesNewTree ==
    /\ SingleEmptyLeaf(Clear(tree))
    /\ Size(Clear(tree)) = 0
    /\ Clear(tree) = NewBPTree(LeafOrder)
    /\ \A key \in InsKeys :
          Canon(Insert(Clear(tree), key, valueForKey(key))) =
              Canon(Insert(NewBPTree(LeafOrder), key, valueForKey(key)))

\* a tree of order above MinOrder with an internal root and keys stored
ClearGivesNewTreeWitness ==
    /\ root \in Internals
    /\ LeafOrder > MinOrder
    /\ Size(tree) > LeafOrder
    /\ cap(heap[root].keys) # LeafOrder
    /\ Clear(tree) = NewBPTree(LeafOrder)


\* C21: constructing a tree with any order below 3, zero and negative
\* orders included, gives the tree NewBPTree(3) gives: an empty root leaf
\* of capacity 3 with bmin 2 and Size() = 0; every node made later has the
\* capacity and the bmin of order 3.
LowOrderClamped ==
    /\ \A order \in LowOrders :
          LET t == NewBPTree(order)
          IN  /\ t = NewBPTree(3)
              /\ SingleEmptyLeaf(t)
              /\ cap(t.h[t.root].keys) = 3 /\ cap(t.h[t.root].values) = 3
              /\ t.h[t.root].bmin = 2
              /\ Size(t) = 0
    /\ \A n \in Nodes : heap[n].bmin = 2
    /\ \A n \in Leaves : cap(heap[n].keys) = 3 /\ cap(heap[n].values) = 3
    /\ \A n \in Internals : cap(heap[n].children) = 3 /\ cap(heap[n].keys) = 2

\* the tree as constructed with order 0 and with a negative order
LowOrderClampedWitness ==
    /\ 0 \in LowOrders /\ tree = NewBPTree(0)
    /\ \E order \in LowOrders : order < 0 /\ tree = NewBPTree(order)
    /\ len(heap[root].keys) = 0


\* what the successive Next() calls of the iterator it yield, up to the
\* first call that returns false
Yielded(it) == rangeLoop(heap, it, <<>>)
\* the values yielded with key k, in the order they are yielded
YieldedAt(r, k) ==
    LET atK(kv) == kv.Key = k
        sub == SelectSeq(r, atK)
    IN  [j \in 1..Len(sub) |-> sub[j].Value]
InBounds(k, from, to) ==
    /\ from # <<>> => from[1] <= k
    /\ to # <<>> => k < to[1]
\* the slot of key k in the leaf that holds it
SlotOf(k) ==
    CHOOSE p \in {<<n, j>> : n \in Leaves, j \in 0..MaxOrder} :
        p[2] < len(heap[p[1]].keys) /\ at(heap[p[1]].keys, p[2]) = k
LastSlotOfLeaf(k) == SlotOf(k)[2] = len(heap[SlotOf(k)[1]].keys) - 1
InBucket(k) == isCollision(at(heap[SlotOf(k)[1]].values, SlotOf(k)[2]))

\* C22: on an unmodified tree the successive Next() calls of an iterator
\* yield keys in non-decreasing order, and for a key holding a bucket all
\* the entries of the bucket, consecutively, in insertion order, each
\* exactly once, before any larger key.
NextInOrder ==
    \A from \in BoundsOf(ProbeKeys), to \in BoundsOf(ProbeKeys) :
        LET r == Yielded(Iterator(tree, from, to))
        IN  /\ \A i \in 1..(Len(r) - 1) : r[i].Key <= r[i + 1].Key
            /\ \A k \in DOMAIN model :
                  YieldedAt(r, k) =
                      IF InBounds(k, from, to) /\ (from = <<>> \/ to = <<>> \/ from[1] < to[1])
                      THEN [j \in 1..Len(model[k]) |-> solo(model[k][j])]
                      ELSE <<>>

\* two leaves: the last slot of the first holds a bucket of two different
\* values and the last slot of the tree a bucket of a single entry
NextInOrderWitness ==
    /\ TwoLeaves
    /\ \E k \in DOMAIN model :
          /\ InBucket(k) /\ LastSlotOfLeaf(k)
          /\ k < MaxKeyOf(model)
          /\ Len(model[k]) = 2 /\ model[k][1] # model[k][2]
    /\ InBucket(MaxKeyOf(model)) /\ Len(model[MaxKeyOf(model)]) = 1
    /\ Len(Yielded(Iterator(tree, <<>>, <<>>))) = 5


\* ks with k put in at its place in the ascending order, and vs with v put
\* in at the same place
RECURSIVE PlaceOf(_, _, _)
PlaceOf(ks, k, i) == IF i <= Len(ks) /\ ks[i] < k THEN PlaceOf(ks, k, i + 1) ELSE i
PutIn(s, i, x) == SubSeq(s, 1, i - 1) \o <<x>> \o SubSeq(s, i, Len(s))
\* the keys no tree of SpecIns and SpecDel holds, and those it may hold
InsProbeKeys == 0..(MaxInsKey + 1)
\* the leaf a call on key descends to
LeafFor(key) == findLeaf(heap, root, key)
FullLeafFor(key) == len(heap[LeafFor(key)].keys) = cap(heap[LeafFor(key)].keys)

\* C23: when a new key is inserted into a leaf that holds m keys, the leaf
\* splits into the old leaf with exactly bmin entries and a new right leaf
\* with exactly m + 1 - bmin entries, which together hold the m old entries
\* and the new one in ascending order wherever the new key falls; the key
\* handed to the parent is the first key of the new right leaf and stays
\* in that leaf.
LeafSplit ==
    \A key \in InsProbeKeys \ DOMAIN model, replace \in BOOLEAN :
        FullLeafFor(key) =>
            LET n == LeafFor(key)
                old == heap[n]
                res == insertToLeaf(heap, n, key, valueForKey(key), replace)
                L == res.h[n]
                R == res.h[res.n2]
                at0 == PlaceOf(elems(old.keys), key, 1)
                m == cap(old.keys)
            IN  /\ res.ok /\ res.n2 # Nil /\ res.n2 \notin Nodes /\ isLeaf(R)
                /\ len(L.keys) = Bmin(m) /\ len(L.values) = Bmin(m)
                /\ len(R.keys) = m + 1 - Bmin(m) /\ len(R.values) = m + 1 - Bmin(m)
                /\ elems(L.keys) \o elems(R.keys) = PutIn(elems(old.keys), at0, key)
                /\ Ascending(elems(L.keys) \o elems(R.keys))
                /\ elems(L.values) \o elems(R.values) =
                      PutIn(elems(old.values), at0, solo(valueForKey(key)))
                /\ res.key2 = at(R.keys, 0)

\* a full leaf of a tree of order above MinOrder that takes a new key in
\* front of its keys, another behind them and another in between
LeafSplitWitness ==
    /\ LeafOrder > MinOrder
    /\ \E k1 \in InsProbeKeys \ DOMAIN model, k2 \in InsProbeKeys \ DOMAIN model,
          k3 \in InsProbeKeys \ DOMAIN model :
          /\ LeafFor(k1) = LeafFor(k2) /\ LeafFor(k2) = LeafFor(k3)
          /\ FullLeafFor(k1)
          /\ PlaceOf(KeysOf(LeafFor(k1)), k1, 1) = 1
          /\ PlaceOf(KeysOf(LeafFor(k2)), k2, 1) = Len(KeysOf(LeafFor(k2))) + 1
          /\ PlaceOf(KeysOf(LeafFor(k3)), k3, 1) \in 2..Len(KeysOf(LeafFor(k3)))
          /\ insertToLeaf(heap, LeafFor(k3), k3, valueForKey(k3), TRUE).key2 = k3


\* the nodes a call on key descends through, the leaf included
RECURSIVE PathFrom(_, _)
PathFrom(n, key) ==
    IF isInternal(heap[n])
    THEN {n} \cup PathFrom(at(heap[n].children, childLoop(heap[n], key, 0)), key)
    ELSE {n}
\* what the child of n that key descends to hands back to n on an insert
BelowOf(n, key) ==
    node_insert(heap, at(heap[n].children, childLoop(heap[n], key, 0)),
                key, valueForKey(key), TRUE)
\* n has m children and receives a key and a child from below
FullAndFed(n, key) ==
    /\ isInternal(heap[n])
    /\ len(heap[n].children) = cap(heap[n].children)
    /\ BelowOf(n, key).n2 # Nil
\* the position of the incoming key among the keys of n
PosIn(n, key) == internalScan(heap[n], BelowOf(n, key).key2, 0, 0)
SetOf(s) == {s[j] : j \in 1..Len(s)}

\* C24: when an internal node with m children receives a promoted key and
\* child, it splits so that the left node keeps exactly bmin children and
\* the new right node gets m + 1 - bmin children; the key handed upward is
\* among the keys of neither node, and the left keys, that key and the
\* right keys together are the old keys and the incoming key in ascending
\* order (the children likewise, the incoming child right of the incoming
\* key), in all three cases of the incoming position.
InternalSplit ==
    \A key \in InsProbeKeys \ DOMAIN model : \A n \in PathFrom(root, key) :
        FullAndFed(n, key) =>
            LET below == BelowOf(n, key)
                old == heap[n]
                res == insertToInternal(below.h, n, below.key2, below.n2)
                L == res.h[n]
                R == res.h[res.n2]
                at0 == PlaceOf(elems(old.keys), below.key2, 1)
                m == cap(old.children)
            IN  /\ res.n2 # Nil /\ res.n2 # below.n2 /\ isInternal(R)
                /\ len(L.children) = Bmin(m) /\ len(L.keys) = Bmin(m) - 1
                /\ len(R.children) = m + 1 - Bmin(m) /\ len(R.keys) = m - Bmin(m)
                /\ res.key2 \notin SetOf(elems(L.keys)) \cup SetOf(elems(R.keys))
                /\ elems(L.keys) \o <<res.key2>> \o elems(R.keys) =
                      PutIn(elems(old.keys), at0, below.key2)
                /\ Ascending(elems(L.keys) \o <<res.key2>> \o elems(R.keys))
                /\ elems(L.children) \o elems(R.children) =
                      PutIn(elems(old.children), at0 + 1, below.n2)

\* a full root whose middle leaf splits: the incoming key lands at
\* pos = bmin - 1 and is itself handed upward
InternalSplitWitness ==
    \E key \in InsProbeKeys \ DOMAIN model :
        /\ FullAndFed(root, key)
        /\ PosIn(root, key) = heap[root].bmin - 1
        /\ LET below == BelowOf(root, key)
           IN  insertToInternal(below.h, root, below.key2, below.n2).key2 = below.key2
\* the same with pos < bmin - 1 and with pos > bmin - 1
InternalSplitLow ==
    \E key \in InsProbeKeys \ DOMAIN model :
        FullAndFed(root, key) /\ PosIn(root, key) < heap[root].bmin - 1
InternalSplitHigh ==
    \E key \in InsProbeKeys \ DOMAIN model :
        FullAndFed(root, key) /\ PosIn(root, key) > heap[root].bmin - 1


\* C25: after every public operation the root is a leaf or an internal node
\* with at least 2 children; a root split produces a new internal root with
\* exactly one separator and two children, the old root and its new
\* sibling, and a delete that leaves an internal root with one child
\* replaces the root by that child within the same operation.
RootShape ==
    /\ root \in Internals => len(heap[root].children) >= 2
    /\ \A key \in InsProbeKeys, replace \in BOOLEAN :
          RootSplits(key, valueForKey(key), replace) =>
              LET below == node_insert(heap, root, key, valueForKey(key), replace)
                  t1 == insert(tree, key, valueForKey(key), replace)
                  R == t1.h[t1.root]
              IN  /\ t1.root \notin Nodes /\ t1.root # below.n2
                  /\ isInternal(R) /\ ~isLeaf(R)
                  /\ elems(R.keys) = <<below.key2>>
                  /\ elems(R.children) = <<root, below.n2>>
                  /\ R.left = Nil /\ R.right = Nil
    /\ \A key \in InsProbeKeys :
          RootLeftWithOne(key, FALSE, 0 - 1) =>
              LET below == node_delete(heap, root, key, FALSE, 0 - 1)
                  t1 == Delete(tree, key).t
              IN  /\ t1.root = at(below.h[root].children, 0)
                  /\ t1.root # root
                  /\ isInternal(t1.h[t1.root]) => len(t1.h[t1.root].children) >= 2

\* a tree of three levels, its root made by the split of an internal root,
\* that a Delete brings down to its one remaining internal child
RootShapeWitness ==
    /\ ThreeLevels
    /\ Len(KeysOf(root)) = 1 /\ Len(ChildrenOf(root)) = 2
    /\ \E key \in DOMAIN model :
          /\ RootLeftWithOne(key, FALSE, 0 - 1)
          /\ isInternal(Delete(tree, key).t.h[Delete(tree, key).t.root])


(***************************************************************************)
(* Rebalancing.  Delete(key) reaches the internal node n on its way down;  *)
(* Shrunk(n, key) is the heap when the delete in the child of n has        *)
(* returned, Balanced(n, key) the heap after n has rebalanced that child.  *)
(***************************************************************************)
ChildIdx(n, key) == childLoop(heap[n], key, 0)
ChildAt(n, key) == at(heap[n].children, ChildIdx(n, key))
LeftOf(n, key) == at(heap[n].children, ChildIdx(n, key) - 1)
RightOf(n, key) == at(heap[n].children, ChildIdx(n, key) + 1)
HasLeft(n, key) == ChildIdx(n, key) > 0
HasRight(n, key) == ChildIdx(n, key) < len(heap[n].children) - 1
Shrunk(n, key) == node_delete(heap, ChildAt(n, key), key, FALSE, 0 - 1).h
\* the entries of node x in heap h: values of a leaf, children otherwise
Count(h, x) == IF isLeaf(h[x]) THEN len(h[x].values) ELSE len(h[x].children)
Underflows(n, key) ==
    /\ key \in DOMAIN model
    /\ n \in PathFrom(root, key) /\ isInternal(heap[n])
    /\ Count(Shrunk(n, key), ChildAt(n, key)) < Bmin(Order)
Balanced(n, key) ==
    IF isLeaf(heap[ChildAt(n, key)])
    THEN balanceLeaf(Shrunk(n, key), n, ChildIdx(n, key))
    ELSE balanceInternal(Shrunk(n, key), n, ChildIdx(n, key))
LeftRich(n, key) ==
    HasLeft(n, key) /\ Count(Shrunk(n, key), LeftOf(n, key)) > Bmin(Order)
RightRich(n, key) ==
    HasRight(n, key) /\ Count(Shrunk(n, key), RightOf(n, key)) > Bmin(Order)
\* in heap h2 node x has d entries more than after the delete below n, and
\* n has the children it had
Moved(n, key, h2, x, d) == Count(h2, x) = Count(Shrunk(n, key), x) + d
SameChildren(n, key, h2) == h2[n].children = Shrunk(n, key)[n].children

\* C26: when a delete leaves the child at position i of its parent with
\* fewer than bmin entries, the parent borrows one entry from the left
\* neighbour if i > 0 and that neighbour has more than bmin entries,
\* otherwise from the right neighbour if it exists and has more than bmin
\* entries, and merges only when no adjacent child has more than bmin
\* entries.  A borrow leaves the parent's children as they were and both
\* nodes with at least bmin entries.
BorrowBeforeMerge ==
    \A key \in DOMAIN model : \A n \in PathFrom(root, key) :
        Underflows(n, key) =>
            LET h2 == Balanced(n, key)
                c == ChildAt(n, key)
            IN  IF LeftRich(n, key)
                THEN /\ SameChildren(n, key, h2)
                     /\ Moved(n, key, h2, c, 1)
                     /\ Moved(n, key, h2, LeftOf(n, key), 0 - 1)
                     /\ HasRight(n, key) => Moved(n, key, h2, RightOf(n, key), 0)
                     /\ Count(h2, c) >= Bmin(Order)
                     /\ Count(h2, LeftOf(n, key)) >= Bmin(Order)
                ELSE IF RightRich(n, key)
                THEN /\ SameChildren(n, key, h2)
                     /\ Moved(n, key, h2, c, 1)
                     /\ Moved(n, key, h2, RightOf(n, key), 0 - 1)
                     /\ HasLeft(n, key) => Moved(n, key, h2, LeftOf(n, key), 0)
                     /\ Count(h2, c) >= Bmin(Order)
                     /\ Count(h2, RightOf(n, key)) >= Bmin(Order)
                ELSE len(h2[n].children) = len(Shrunk(n, key)[n].children) - 1

\* a tree of three levels where a delete merges two leaves and so makes
\* the internal node above them borrow a child from its left neighbour
BorrowBeforeMergeWitness ==
    /\ ThreeLevels
    /\ \E key \in DOMAIN model :
          /\ Underflows(root, key) /\ LeftRich(root, key)
          /\ Underflows(ChildAt(root, key), key)
          /\ ~LeftRich(ChildAt(root, key), key) /\ ~RightRich(ChildAt(root, key), key)
\* a leaf with two neighbours above bmin left with fewer than bmin entries
LeafBothRich ==
    \E key \in DOMAIN model : \E n \in PathFrom(root, key) :
        /\ Underflows(n, key) /\ isLeaf(heap[ChildAt(n, key)])
        /\ LeftRich(n, key) /\ RightRich(n, key)


\* s without its element at index i (from 0)
Dropped(s, i) == SubSeq(s, 1, i) \o SubSeq(s, i + 2, Len(s))
\* the child of n left with fewer than bmin entries has to be merged
MustMerge(n, key) ==
    Underflows(n, key) /\ ~LeftRich(n, key) /\ ~RightRich(n, key)
\* the merge of the child with its left neighbour: the neighbour takes the
\* entries of the child, which leaves the parent
MergedLeft(n, key) ==
    /\ elems(Balanced(n, key)[n].children) =
          Dropped(elems(Shrunk(n, key)[n].children), ChildIdx(n, key))
    /\ Count(Balanced(n, key), LeftOf(n, key)) =
          Count(Shrunk(n, key), LeftOf(n, key)) + Count(Shrunk(n, key), ChildAt(n, key))
\* the merge with the right neighbour: the child takes the entries of the
\* neighbour, which leaves the parent
MergedRight(n, key) ==
    /\ elems(Balanced(n, key)[n].children) =
          Dropped(elems(Shrunk(n, key)[n].children), ChildIdx(n, key) + 1)
    /\ Count(Balanced(n, key), ChildAt(n, key)) =
          Count(Shrunk(n, key), RightOf(n, key)) + Count(Shrunk(n, key), ChildAt(n, key))

\* C27: when the child at position i left with fewer than bmin entries must
\* be merged, the partner is its only neighbour if it has one, the
\* neighbour with the smaller count if the counts differ, and on equal
\* counts the right neighbour when i = 0 and the left one when i > 0.
\* Violated: a child with two neighbours of equal count is merged with the
\* right one (the code takes the left one only when i is the last position
\* or the left count is strictly smaller).
MergePartner ==
    \A key \in DOMAIN model : \A n \in PathFrom(root, key) :
        MustMerge(n, key) =>
            LET lcount == Count(Shrunk(n, key), LeftOf(n, key))
                rcount == Count(Shrunk(n, key), RightOf(n, key))
            IN  IF ~HasLeft(n, key) THEN MergedRight(n, key)
                ELSE IF ~HasRight(n, key) THEN MergedLeft(n, key)
                ELSE IF lcount < rcount THEN MergedLeft(n, key)
                ELSE IF rcount < lcount THEN MergedRight(n, key)
                ELSE IF ChildIdx(n, key) = 0 THEN MergedRight(n, key)
                ELSE MergedLeft(n, key)

\* what the code does: the left neighbour when i is the last position or
\* the left count is strictly smaller, the right neighbour otherwise
MergePartnerOfCode ==
    \A key \in DOMAIN model : \A n \in PathFrom(root, key) :
        MustMerge(n, key) =>
            IF HasLeft(n, key) /\ ~HasRight(n, key) THEN MergedLeft(n, key)
            ELSE IF ~HasLeft(n, key) THEN MergedRight(n, key)
            ELSE IF Count(Shrunk(n, key), LeftOf(n, key))
                        < Count(Shrunk(n, key), RightOf(n, key))
            THEN MergedLeft(n, key)
            ELSE MergedRight(n, key)


(***************************************************************************)
(* What a borrow moves.  h1 is the heap before the parent n rebalances its *)
(* child c at position i, h2 the heap after; d is the donor.               *)
(***************************************************************************)
Front(s) == SubSeq(s, 1, Len(s) - 1)
LastOf(s) == s[Len(s)]
\* the keys of n in h2 are those in h1 but for the separator at index j
\* (from 0), which is k
SeparatorSet(h1, h2, n, j, k) ==
    /\ len(h2[n].keys) = len(h1[n].keys)
    /\ \A x \in 0..(len(h1[n].keys) - 1) :
          at(h2[n].keys, x) = IF x = j THEN k ELSE at(h1[n].keys, x)
LeafTookLeft(h1, h2, n, i, c, d) ==
    /\ elems(h2[c].keys) = <<LastOf(elems(h1[d].keys))>> \o elems(h1[c].keys)
    /\ elems(h2[c].values) = <<LastOf(elems(h1[d].values))>> \o elems(h1[c].values)
    /\ elems(h2[d].keys) = Front(elems(h1[d].keys))
    /\ elems(h2[d].values) = Front(elems(h1[d].values))
    /\ SeparatorSet(h1, h2, n, i - 1, at(h2[c].keys, 0))
LeafTookRight(h1, h2, n, i, c, d) ==
    /\ elems(h2[c].keys) = Append(elems(h1[c].keys), Head(elems(h1[d].keys)))
    /\ elems(h2[c].values) = Append(elems(h1[c].values), Head(elems(h1[d].values)))
    /\ elems(h2[d].keys) = Tail(elems(h1[d].keys))
    /\ elems(h2[d].values) = Tail(elems(h1[d].values))
    /\ SeparatorSet(h1, h2, n, i, at(h2[d].keys, 0))
InternalTookLeft(h1, h2, n, i, c, d) ==
    /\ elems(h2[c].keys) = <<at(h1[n].keys, i - 1)>> \o elems(h1[c].keys)
    /\ elems(h2[c].children) = <<LastOf(elems(h1[d].children))>> \o elems(h1[c].children)
    /\ elems(h2[d].keys) = Front(elems(h1[d].keys))
    /\ elems(h2[d].children) = Front(elems(h1[d].children))
    /\ SeparatorSet(h1, h2, n, i - 1, LastOf(elems(h1[d].keys)))
InternalTookRight(h1, h2, n, i, c, d) ==
    /\ elems(h2[c].keys) = Append(elems(h1[c].keys), at(h1[n].keys, i))
    /\ elems(h2[c].children) = Append(elems(h1[c].children), Head(elems(h1[d].children)))
    /\ elems(h2[d].keys) = Tail(elems(h1[d].keys))
    /\ elems(h2[d].children) = Tail(elems(h1[d].children))
    /\ SeparatorSet(h1, h2, n, i, Head(elems(h1[d].keys)))

\* C28: a leaf borrow from the left moves the left sibling's last (key,
\* value) to the front of the receiver and sets the separator between them
\* to the receiver's new first key; a leaf borrow from the right moves the
\* right sibling's first (key, value) to the receiver's tail and sets the
\* separator to the right sibling's new first key; an internal borrow
\* rotates through the parent: the old separator descends into the
\* receiver, with the donor's edge child, and the donor's edge key becomes
\* the separator.
BorrowMoves ==
    \A key \in DOMAIN model : \A n \in PathFrom(root, key) :
        Underflows(n, key) =>
            LET h1 == Shrunk(n, key)
                h2 == Balanced(n, key)
                i == ChildIdx(n, key)
                c == ChildAt(n, key)
            IN  IF LeftRich(n, key)
                THEN IF isLeaf(heap[c])
                     THEN LeafTookLeft(h1, h2, n, i, c, LeftOf(n, key))
                     ELSE InternalTookLeft(h1, h2, n, i, c, LeftOf(n, key))
                ELSE RightRich(n, key) =>
                     IF isLeaf(heap[c])
                     THEN LeafTookRight(h1, h2, n, i, c, RightOf(n, key))
                     ELSE InternalTookRight(h1, h2, n, i, c, RightOf(n, key))

\* a tree of three levels where a delete makes the first internal node
\* below the root borrow from its right neighbour: the separator of the
\* root descends and the first key of the neighbour takes its place
BorrowMovesWitness ==
    /\ ThreeLevels
    /\ \E key \in DOMAIN model :
          /\ Underflows(root, key) /\ ~HasLeft(root, key) /\ RightRich(root, key)
          /\ at(Balanced(root, key)[root].keys, 0) =
                at(heap[RightOf(root, key)].keys, 0)
          /\ LastOf(elems(Balanced(root, key)[ChildAt(root, key)].keys)) =
                at(heap[root].keys, 0)
\* leaves borrowing from the left and from the right
LeafBorrowsLeft ==
    \E key \in DOMAIN model : \E n \in PathFrom(root, key) :
        Underflows(n, key) /\ isLeaf(heap[ChildAt(n, key)]) /\ LeftRich(n, key)
LeafBorrowsRight ==
    \E key \in DOMAIN model : \E n \in PathFrom(root, key) :
        /\ Underflows(n, key) /\ isLeaf(heap[ChildAt(n, key)])
        /\ ~LeftRich(n, key) /\ RightRich(n, key)


\* the value slots of the leaves of tree t
SlotsOf(t) ==
    UNION {{at(Canon(t).h[n].values, j) : j \in 0..(len(Canon(t).h[n].values) - 1)} :
              n \in {x \in 1..Len(Canon(t).h) : isLeaf(Canon(t).h[x])}}
\* no slot of t holds nil or a bucket without entries
NoEmptyBucket(t) ==
    \A v \in SlotsOf(t) : v # NilValue /\ (isCollision(v) => Len(v.c) >= 1)
\* every leaf of t but the root holds bmin keys or more, with their values
NoLeafBelowBmin(t) ==
    \A n \in 2..Len(Canon(t).h) :
        isLeaf(Canon(t).h[n]) =>
            /\ len(Canon(t).h[n].keys) >= Bmin(Order)
            /\ len(Canon(t).h[n].values) = len(Canon(t).h[n].keys)
\* the keys in the leaves of t
StoredIn(t) ==
    UNION {SetOf(elems(Canon(t).h[n].keys)) :
              n \in {x \in 1..Len(Canon(t).h) : isLeaf(Canon(t).h[x])}}
\* t is the tree after the slot of key has left it
SlotGone(t, key) ==
    /\ key \notin StoredIn(t)
    /\ StoredIn(t) = DOMAIN model \ {key}
    /\ NoEmptyBucket(t)
    /\ NoLeafBelowBmin(t)

SoloedValue(v) == IF isCollision(v) /\ Len(v.c) = 1 THEN solo(v.c[1]) ELSE v
SoloedNode(N) ==
    [N EXCEPT !.values = [a |-> array([j \in 1..cap(N.values) |->
                                          SoloedValue(N.values.a[j])]),
                          n |-> N.values.n]]
Soloed(t) ==
    LET c == Canon(t)
    IN  [h |-> array([n \in 1..Len(c.h) |-> SoloedNode(c.h[n])]),
         root |-> c.root, size |-> c.size]
\* the calls that return without changing the tree give the same on a and b
SameReads(a, b) ==
    /\ Size(a) = Size(b)
    /\ First(a) = First(b) /\ Last(a) = Last(b)
    /\ \A key \in ProbeKeys : Find(a, key) = Find(b, key) /\ FindAll(a, key) = FindAll(b, key)
    /\ \A from \in BoundsOf(ProbeKeys), to \in BoundsOf(ProbeKeys) :
          Range(a, from, to) = Range(b, from, to)
\* the same on the trees a and b that a call has led to, with Entries for
\* the ranges
SameReadsAfter(a, b) ==
    /\ Size(a) = Size(b)
    /\ First(a) = First(b) /\ Last(a) = Last(b)
    /\ \A key \in ProbeKeys : Find(a, key) = Find(b, key) /\ FindAll(a, key) = FindAll(b, key)
    /\ Entries(a) = Entries(b)
\* a delete call returned [t, val(s), ok] on both: the same values, and
\* trees that differ in nothing but buckets of one entry
SameDelete(ra, rb) ==
    /\ [ra EXCEPT !.t = Soloed(ra.t)] = [rb EXCEPT !.t = Soloed(rb.t)]
    /\ SameReadsAfter(ra.t, rb.t)
SameTree(ta, tb) == Soloed(ta) = Soloed(tb) /\ SameReadsAfter(ta, tb)
HasSingleBucket == \E key \in DOMAIN model : InBucket(key) /\ Len(model[key]) = 1

\* C30: a key whose bucket has been reduced to a single remaining value by
\* Delete or DeleteOne is indistinguishable from a key holding that value
\* as a solo value: Find, FindAll, Size, First, Last and Range return the
\* same on the two trees, and Insert, Append, Delete, DeleteOne (any idx)
\* and DeleteAll return the same and lead to two trees that again differ
\* in nothing but buckets of one entry, on which the reads return the same.
SingleBucketAsSolo ==
    HasSingleBucket =>
        LET st == Soloed(tree)
        IN  /\ SameReads(tree, st)
            /\ \A key \in ProbeKeys :
                  /\ \A val \in Vals :
                        /\ SameTree(Insert(tree, key, val), Insert(st, key, val))
                        /\ SameTree(Append_(tree, key, val), Append_(st, key, val))
                  /\ SameDelete(Delete(tree, key), Delete(st, key))
                  /\ SameDelete(DeleteAll(tree, key), DeleteAll(st, key))
                  /\ \A idx \in Idxs :
                        SameDelete(DeleteOne(tree, key, idx), DeleteOne(st, key, idx))

\* two leaves, one of the keys with a bucket that a Delete has cut down to
\* one entry: Append gives a bucket of two on either tree and DeleteOne
\* with idx 0 removes the key from either
SingleBucketAsSoloWitness ==
    /\ TwoLeaves
    /\ \E key \in DOMAIN model :
          /\ InBucket(key) /\ Len(model[key]) = 1
          /\ Soloed(tree) # tree
          /\ FindAll(Append_(Soloed(tree), key, 2), key).vals = <<model[key][1], 2>>
          /\ FindAll(Append_(tree, key, 2), key).vals = <<model[key][1], 2>>
          /\ DeleteOne(Soloed(tree), key, 0).ok /\ DeleteOne(tree, key, 0).ok
          /\ ~DeleteOne(Soloed(tree), key, 1).ok /\ ~DeleteOne(tree, key, 1).ok


\* tree t1 is what the call left of `tree`: the same nodes with the same
\* keys, children, links and bmin, and the same value slots but for the
\* slot of key
OnlySlotChanged(t1, key) ==
    /\ Len(t1.h) = Len(heap) /\ t1.root = root
    /\ \A n \in Nodes :
          /\ t1.h[n].keys = heap[n].keys
          /\ t1.h[n].children = heap[n].children
          /\ t1.h[n].left = heap[n].left /\ t1.h[n].right = heap[n].right
          /\ t1.h[n].bmin = heap[n].bmin
          /\ len(t1.h[n].values) = len(heap[n].values)
          /\ cap(t1.h[n].values) = cap(heap[n].values)
          /\ \A j \in 1..cap(heap[n].values) :
                <<n, j - 1>> # SlotOf(key) => t1.h[n].values.a[j] = heap[n].values.a[j]
    /\ OthersKept(t1, key, ProbeKeys)

\* C31: Insert on an existing key and Append on an existing key change
\* only the content of that key's slot: no node is split, created or
\* removed, no node's key list, child list or sibling link changes, and no
\* other key's values change.
ExistingKeyFrame ==
    \A key \in DOMAIN model, val \in Vals :
        /\ OnlySlotChanged(Insert(tree, key, val), key)
        /\ FindAll(Insert(tree, key, val), key) = FoundAll(<<val>>)
        /\ OnlySlotChanged(Append_(tree, key, val), key)
        /\ FindAll(Append_(tree, key, val), key) = FoundAll(Append(model[key], val))

\* a root leaf that holds as many keys as it has room for, one of them with
\* a bucket of two: Insert and Append on that key leave it one leaf
ExistingKeyFrameWitness ==
    /\ root \in Leaves
    /\ len(heap[root].keys) = cap(heap[root].keys)
    /\ \E key \in DOMAIN model :
          /\ InBucket(key) /\ Len(model[key]) = 2
          /\ Len(Insert(tree, key, 1).h) = 1
          /\ Len(Append_(tree, key, 1).h) = 1
          /\ FindAll(Append_(tree, key, 1), key).vals = Append(model[key], 1)
\* the same in a tree of two leaves
ExistingKeyTwoLeaves ==
    TwoLeaves /\ \E key \in DOMAIN model : InBucket(key) /\ Len(model[key]) = 2


\* every slot of the values and children arrays of node n from the length
\* up to the capacity holds nil
NilTail(n) ==
    /\ \A j \in (len(heap[n].values) + 1)..cap(heap[n].values) :
          heap[n].values.a[j] = NilValue
    /\ \A j \in (len(heap[n].children) + 1)..cap(heap[n].children) :
          heap[n].children.a[j] = Nil
\* the removal at idx leaves the array of bucket c with the remaining
\* entries and the zero value in the slot it vacated
ZeroVacated(c, idx) ==
    /\ elems(bucketArray(c, idx)) = remaining(c, idx)
    /\ \A j \in (len(bucketArray(c, idx)) + 1)..cap(bucketArray(c, idx)) :
          bucketArray(c, idx).a[j] = ZeroV
Buckets == {v \in SlotsOf(tree) : isCollision(v)}

\* C32: after every public operation, in every node reachable from the
\* root (the stored heap holds exactly those), every slot of the values
\* array and of the children array from the length up to the capacity
\* holds nil, and every removal from a stored bucket leaves the zero value
\* in the slot it vacates: nothing moved or removed by a shift, split,
\* borrow, merge or delete remains referenced by the tree.
MemoryHygiene ==
    /\ \A n \in Nodes : NilTail(n)
    /\ \A v \in Buckets : \A idx \in (0 - 1)..(Len(v.c) - 1) : ZeroVacated(v.c, idx)

\* a tree with a bucket, where deleting one key merges two leaves and
\* leaves their parent in the tree with one child less
MemoryHygieneWitness ==
    /\ isInternal(heap[root])
    /\ \E v \in Buckets : Len(v.c) >= 2
    /\ \E key \in DOMAIN model :
          LET t1 == Canon(Delete(tree, key).t)
          IN  /\ Len(t1.h) < Len(heap)
              /\ isInternal(t1.h[t1.root])
              /\ \E n \in 1..Len(t1.h) :
                    /\ isInternal(t1.h[n])
                    /\ len(t1.h[n].children) < cap(t1.h[n].children)


\* FindAll on t gives for every key what the map m binds it to
Refines(t, m) ==
    \A k \in ProbeKeys :
        FindAll(t, k) = IF k \in DOMAIN m THEN FoundAll(m[k]) ELSE NotFoundAll
\* what a removal at idx returns according to the map: the entry of vs at
\* idx, the last one when idx < 0, nothing when there is none
Removed(vs, idx) ==
    IF vs = <<>> \/ idx >= Len(vs) THEN NotFound
    ELSE IF idx < 0 THEN Found(vs[Len(vs)]) ELSE Found(vs[idx + 1])
Returns(d) == [ok |-> d.ok, val |-> d.val]
ReturnsAll(d) == [ok |-> d.ok, vals |-> d.vals]

ValuesIn(r, k) == [j \in 1..Len(YieldedAt(r, k)) |-> YieldedAt(r, k)[j].c[1]]
KeysIn(r) == {r[j].Key : j \in 1..Len(r)}
ViewsAgreeOn(r) ==
    \A k \in TreeProbeKeys :
        /\ Find(tree, k).ok <=> k \in KeysIn(r)
        /\ FindAll(tree, k).ok <=> k \in KeysIn(r)
        /\ FindAll(tree, k).vals = ValuesIn(r, k)
        /\ Find(tree, k).ok => Find(tree, k).val = ValuesIn(r, k)[1]

\* C34: the two views of the tree agree after any sequence of operations:
\* for every key k, Find(k) and FindAll(k), by descent from the root,
\* succeed if and only if k is among the keys Entries() yields through the
\* leaf chain, and FindAll(k) is the values Entries() yields for k, in the
\* same order.
ViewsAgree == ViewsAgreeOn(Entries(tree))

\* a tree of three levels with a bucket of two or more values, a stored
\* key that is a separator of the root, and a key that is not stored
ViewsAgreeWitness ==
    /\ ThreeLevels
    /\ \E k \in DOMAIN model :
          Len(model[k]) >= 2 /\ ValuesIn(Entries(tree), k) = model[k]
    /\ \E k \in DOMAIN model :
          /\ k \in SetOf(KeysOf(root))
          /\ Find(tree, k).ok /\ k \in KeysIn(Entries(tree))
    /\ \E k \in TreeProbeKeys :
          ~Find(tree, k).ok /\ k \notin KeysIn(Entries(tree))


\* the number of values the tree stores, by the reference map
StoredValues == Len(PairsOf(model, 0, MaxKey + 2))
\* up to calls Next() calls on iterator it of the unmodified tree: the pairs
\* yielded, whether done was returned, and the iterator after that call
RECURSIVE NextCalls(_, _, _)
NextCalls(it, calls, result) ==
    IF calls = 0 THEN [done |-> FALSE, it |-> it, result |-> result]
    ELSE IF iterator_Next(heap, it).ok
    THEN NextCalls(iterator_Next(heap, it).it, calls - 1,
                   Append(result, iterator_Next(heap, it).kv))
    ELSE [done |-> TRUE, it |-> iterator_Next(heap, it).it, result |-> result]
\* each of the next calls Next() calls on it returns done and no pair
RECURSIVE StaysDone(_, _)
StaysDone(it, calls) ==
    \/ calls = 0
    \/ /\ ~iterator_Next(heap, it).ok
       /\ iterator_Next(heap, it).kv = ZeroKeyValue
       /\ StaysDone(iterator_Next(heap, it).it, calls - 1)
Terminates(r, from, to) ==
    /\ r.done
    /\ Len(r.result) <= StoredValues
    /\ StaysDone(r.it, StoredValues + 1)
    /\ \A j \in 1..Len(r.result) : to # <<>> => r.result[j].Key < to[1]
    /\ \A k \in DOMAIN model :
          (InBounds(k, from, to) /\ (from = <<>> \/ to = <<>> \/ from[1] < to[1]))
              => k \in KeysIn(r.result)
    /\ (from # <<>> /\ to # <<>> /\ from[1] >= to[1]) => r.result = <<>>

\* C35: on an unmodified tree, the Next() calls on an iterator of any
\* bounds from, to (absent, stored or not stored; from >= to and the empty
\* tree included) return done after at most as many yields as there are
\* stored values; every later Next() returns done again, without a pair;
\* with a to bound no key >= to is yielded, and done does not come before
\* the first key >= to (every stored key within the bounds is yielded).
NextTerminates ==
    \A from \in BoundsOf(ProbeKeys), to \in BoundsOf(ProbeKeys) :
        Terminates(NextCalls(Iterator(tree, from, to), StoredValues + 1, <<>>), from, to)

\* two leaves with a bucket; the iterator to a stored key of the second
\* leaf yields the bucket and is done before that key, and stays done
NextTerminatesWitness ==
    /\ TwoLeaves
    /\ \E k \in DOMAIN model, to \in DOMAIN model :
          LET r == NextCalls(Iterator(tree, <<>>, <<to>>), StoredValues + 1, <<>>)
          IN  /\ Len(model[k]) >= 2 /\ k < to
              /\ to \in SetOf(KeysOf(at(heap[root].children, 1)))
              /\ r.done /\ Len(r.result) >= 2 /\ Len(r.result) < StoredValues
              /\ r.it.n = Nil
              /\ ~iterator_Next(heap, r.it).ok

====
